---- MODULE Spec2Model ----
(***************************************************************************)
(* The Trip Manager of the traffic simulator (sim/src/trips.rs): people,   *)
(* their trips, the leg-by-leg state machine of each trip, the registry of *)
(* active agents, cancellation with warping and the delayed-trip queue.    *)
(*                                                                         *)
(* Every method of TripManager is an operator from a world (the manager's  *)
(* fields plus the scheduler and the parking manager reached through ctx)  *)
(* to the SET of worlds the call can end in: the answers of the map's      *)
(* pathfinder, of the congestion cap and of the parking manager's free     *)
(* spot search are choices made at the call.  A panic (assert!, unwrap,    *)
(* unreachable!, an index out of bounds) ends the call with the panic      *)
(* field set; the step that made the call then aborts the program.         *)
(***************************************************************************)
EXTENDS Integers, Sequences, FiniteSets, TLC

VARIABLES trips, people, active_trip_mode, unfinished_trips,
          pathfinding_upfront, car_id_counter, events,
          scheduler, parking, now, sims, panicked, last, stream, blocked_passed

vars == <<trips, people, active_trip_mode, unfinished_trips,
          pathfinding_upfront, car_id_counter, events,
          scheduler, parking, now, sims, panicked, last, stream, blocked_passed>>

(***************************************************************************)
(* Bounds of the model.                                                    *)
(***************************************************************************)
MaxPeople == 1
MaxTrips == 2
MaxTime == 1
MaxBlocked == 1
\* The trips of the scenario of walks and off-map trips (QueueSpec).
MaxQueued == 3
\* The trips of the scenario with the simulator that has a bug (MisroutedSpec).
MaxMisrouted == 1
\* The trips of the scenario that hands new_trip any legs (LoaderSpec).
MaxLoaded == 1
\* The trips of the scenario of drives that end at the kerb (KerbSpec).
MaxKerb == 2

(***************************************************************************)
(* The map: two buildings, one border intersection, one bus route with     *)
(* two stops that ends at the border.                                      *)
(***************************************************************************)
Buildings == {1, 2}
BorderI == 1
BusStops == {1, 2}
RouteR == 1

\* Option encodings: None of a Time, of an OffMapLocation, of a BusStopID,
\* of a CarID and of a String.
NoTime == -1
NoLoc == 0
NoStop == 0
NoCar == <<-1, "None">>
NoReason == ""

\* The single bus of route RouteR, as the transit simulator names it.
BusX == <<0, "Bus">>

\* --- AgentID -------------------------------------------------------------
Pedestrian(ped) == <<"Pedestrian", ped, NoCar>>
Car(car) == <<"Car", 0, car>>
BusPassenger(person, bus) == <<"BusPassenger", person, bus>>

\* --- PersonState ---------------------------------------------------------
StateTrip(t) == <<"Trip", t>>
StateInside(b) == <<"Inside", b>>
StateOffMap == <<"OffMap", 0>>
InTrip(st) == st[1] = "Trip"

\* --- TripEndpoint --------------------------------------------------------
Bldg(b) == <<"Bldg", b, NoLoc>>
Border(i, loc) == <<"Border", i, loc>>

\* --- SidewalkSpot, by its connection (SidewalkPOI) -----------------------
POIBuilding(b) == <<"Building", b, NoLoc>>
POIBorder(i, loc) == <<"Border", i, loc>>
POIBikeRack(b) == <<"BikeRack", b, NoLoc>>
POIBusStop(s) == <<"BusStop", s, NoLoc>>
POIDeferredParkingSpot == <<"DeferredParkingSpot", 0, NoLoc>>
POISuddenlyAppear == <<"SuddenlyAppear", 0, NoLoc>>
\* SidewalkSpot::parking_spot(spot, ..): spot is <<kind, building>>.
POIParkingSpot(spot) == <<"ParkingSpot", spot, NoLoc>>

\* --- ParkingSpot ---------------------------------------------------------
Onstreet == <<"Onstreet", 0>>
Offstreet(b) == <<"Offstreet", b>>
\* The spots of the map: on the street and inside each building (the map
\* has no parking lot).
ParkingSpots == {Onstreet} \cup {Offstreet(b) : b \in Buildings}

\* --- DrivingGoal ---------------------------------------------------------
ParkNear(b) == <<"ParkNear", b, NoLoc>>
GoalBorder(i, loc) == <<"Border", i, loc>>

\* --- TripLeg -------------------------------------------------------------
Walk(spot) == [leg |-> "Walk", spot |-> spot, car |-> NoCar,
               goal |-> ParkNear(0), route |-> 0, stop2 |-> NoStop, to |-> NoLoc]
Drive(car, goal) == [leg |-> "Drive", spot |-> POISuddenlyAppear, car |-> car,
                     goal |-> goal, route |-> 0, stop2 |-> NoStop, to |-> NoLoc]
RideBus(route, stop2) == [leg |-> "RideBus", spot |-> POISuddenlyAppear, car |-> NoCar,
                          goal |-> ParkNear(0), route |-> route, stop2 |-> stop2,
                          to |-> NoLoc]
Remote(to) == [leg |-> "Remote", spot |-> POISuddenlyAppear, car |-> NoCar,
               goal |-> ParkNear(0), route |-> 0, stop2 |-> NoStop, to |-> to]

\* --- Vehicle ---------------------------------------------------------------
Vehicle(id) == [id |-> id, vehicle_type |-> id[2]]
NoVehicle == [id |-> NoCar, vehicle_type |-> "None"]

\* --- TripSpec --------------------------------------------------------------
MkSpec(kind, car, start, goal, retry, stop1, trip_time) ==
  [kind |-> kind, car |-> car, start |-> start, goal |-> goal,
   retry_if_no_room |-> retry, stop1 |-> stop1, trip_time |-> trip_time]
NoSpec == MkSpec("None", NoCar, POISuddenlyAppear, ParkNear(0), FALSE, NoStop, 0)

\* --- Command ---------------------------------------------------------------
MkCommand(cmd, time, trip, person, car, goal, retry, parked, spec, maybe_req) ==
  [cmd |-> cmd, time |-> time, trip |-> trip, person |-> person, car |-> car,
   goal |-> goal, retry |-> retry, parked |-> parked, spec |-> spec,
   maybe_req |-> maybe_req]
\* Command::SpawnPed(CreatePedestrian {id: person.ped, goal, trip, person, ..})
SpawnPed(time, goal, trip, person) ==
  MkCommand("SpawnPed", time, trip, person, NoCar, goal, FALSE, FALSE, NoSpec, FALSE)
\* Command::SpawnCar(CreateCar::for_appearing / for_parked_car, retry_if_no_room)
SpawnCar(time, car, goal, trip, person, retry, parked) ==
  MkCommand("SpawnCar", time, trip, person, car, goal, retry, parked, NoSpec, FALSE)
FinishRemoteTrip(time, trip, person) ==
  MkCommand("FinishRemoteTrip", time, trip, person, NoCar, ParkNear(0), FALSE, FALSE, NoSpec, FALSE)
\* Command::StartTrip(trip, spec, maybe_req, maybe_path), pushed for the
\* departure time by the code that called new_trip.
StartTrip(time, trip, person, spec, maybe_req) ==
  MkCommand("StartTrip", time, trip, person, NoCar, ParkNear(0), FALSE, FALSE, spec, maybe_req)

\* --- helpers on sequences and maps ---------------------------------------
EmptyMap == [x \in {} |-> 0]
MapRemove(m, k) == [x \in (DOMAIN m) \ {k} |-> m[x]]
\* BTreeMap::insert: an existing binding of k is overwritten.
MapInsert(m, k, v) == [x \in (DOMAIN m) \cup {k} |-> IF x = k THEN v ELSE m[x]]
PopFront(s) == SubSeq(s, 2, Len(s))

\* --- the world a call works on -------------------------------------------
\* The simulator drains the event buffer (collect_events) after every step,
\* so a call starts with an empty buffer; parking_calls lists the mutations
\* the call makes on the parking manager, and returned is the Option a
\* call hands back (ped_reached_bus_stop: the route to wait for).
World ==
  [trips |-> trips, people |-> people, active_trip_mode |-> active_trip_mode,
   unfinished_trips |-> unfinished_trips, pathfinding_upfront |-> pathfinding_upfront,
   car_id_counter |-> car_id_counter, events |-> <<>>,
   scheduler |-> scheduler, parking |-> parking, parking_calls |-> <<>>,
   returned |-> <<"None">>, panic |-> ""]

\* A panic: the call ends here.
Panic(w, why) == [w EXCEPT !.panic = why]
\* self.events.push(e) and ctx.scheduler.push(time, command).
Emit(w, e) == [w EXCEPT !.events = Append(@, e)]
Push(w, c) == [w EXCEPT !.scheduler = @ \cup {c}]
\* The rest of a call, F, continued from every world its first part can end
\* in; a world that panicked stays as it is.
Then(S, F(_)) == UNION {IF x.panic # "" THEN {x} ELSE F(x) : x \in S}

\* trips[id.0] and people[id.0]: ids are 0-based indices.
TripAt(w, id) == w.trips[id + 1]
PersonAt(w, id) == w.people[id + 1]

\* Person::get_vehicle: find(..).unwrap().
HasVehicle(p, id) == \E k \in 1..Len(p.vehicles) : p.vehicles[k].id = id

\* The collaborators' answers: map.pathfind(req) is Some or None; the cap's
\* validate_path passes the path on or rejects it (marking the trip as
\* capped); the parking manager's free-spot search answers a spot that
\* holds no car, or none.
PathfindAnswers == BOOLEAN
CapAnswers == {"ok", "rejected"}
FreeSpotAnswers(w) ==
  {<<"None", 0>>} \cup {s \in ParkingSpots : \A c \in DOMAIN w.parking : w.parking[c].spot # s}

(***************************************************************************)
(* TripManager::new_person and new_trip.                                   *)
(***************************************************************************)
NewVehicles(w, vehicle_specs) ==
  [k \in 1..Len(vehicle_specs) |-> Vehicle(<<w.car_id_counter + k - 1, vehicle_specs[k]>>)]

new_person(w, id, vehicle_specs) ==
  IF id # Len(w.people) THEN Panic(w, "new_person: assert_eq!(id.0, self.people.len())")
  ELSE [w EXCEPT
         !.car_id_counter = @ + Len(vehicle_specs),
         !.people = Append(@, [id |-> id, trips |-> <<>>, state |-> StateOffMap,
                               ped |-> id, vehicles |-> NewVehicles(w, vehicle_specs),
                               delayed_trips |-> <<>>, on_bus |-> NoCar])]

\* The endpoint taken from the first leg instead of the last.
EndOfFirstLeg(legs) ==
  LET l == legs[1] IN
  CASE l.leg = "Walk" ->
         IF l.spot[1] = "Building" THEN Bldg(l.spot[2])
         ELSE IF l.spot[1] = "Border" THEN Border(l.spot[2], l.spot[3])
         ELSE <<"panic", 0, NoLoc>>
    [] l.leg = "Drive" ->
         IF l.goal[1] = "ParkNear" THEN Bldg(l.goal[2]) ELSE Border(l.goal[2], l.goal[3])
    [] l.leg = "Remote" -> Border(BorderI, l.to)
    [] l.leg = "RideBus" ->
         IF l.stop2 # NoStop THEN <<"panic", 0, NoLoc>> ELSE Border(BorderI, NoLoc)
\* The end endpoint new_trip derives from the last leg; "panic" where the
\* match is unreachable!() or its assert fails.
EndOfLegs(legs) ==
  LET l == legs[Len(legs)] IN
  CASE l.leg = "Walk" ->
         IF l.spot[1] = "Building" THEN Bldg(l.spot[2])
         ELSE IF l.spot[1] = "Border" THEN Border(l.spot[2], l.spot[3])
         ELSE <<"panic", 0, NoLoc>>
    [] l.leg = "Drive" ->
         IF l.goal[1] = "ParkNear" THEN Bldg(l.goal[2]) ELSE Border(l.goal[2], l.goal[3])
    [] l.leg = "Remote" -> Border(BorderI, l.to)
    [] l.leg = "RideBus" ->
         IF l.stop2 # NoStop THEN <<"panic", 0, NoLoc>> ELSE Border(BorderI, NoLoc)

NewTripRecord(w, person, departure, start, mode, legs) ==
  [id |-> Len(w.trips), person |-> person, departure |-> departure, mode |-> mode,
   start |-> start, end |-> EndOfLegs(legs), capped |-> FALSE,
   cancellation_reason |-> NoReason, started |-> FALSE, finished_at |-> NoTime,
   total_blocked_time |-> 0, legs |-> legs]

\* The comparison with >= in place of >: an equal departure is refused too.
DepartureNotLater(w, person, departure) ==
  LET p == PersonAt(w, person) IN
  /\ Len(p.trips) > 0
  /\ TripAt(w, p.trips[Len(p.trips)]).departure >= departure
\* A departure earlier than the person's last trip's is a panic.
DepartureOutOfOrder(w, person, departure) ==
  LET p == PersonAt(w, person) IN
  /\ Len(p.trips) > 0
  /\ TripAt(w, p.trips[Len(p.trips)]).departure > departure

\* new_trip that sets the person's state for every trip, not only the first.
new_trip_resetting(w, person, departure, start, mode, legs) ==
  IF Len(legs) = 0 THEN Panic(w, "new_trip: assert!(!legs.is_empty())")
  ELSE IF EndOfLegs(legs)[1] = "panic" THEN Panic(w, "new_trip: last leg has no endpoint")
  ELSE
    LET trip == NewTripRecord(w, person, departure, start, mode, legs)
        w1 == [w EXCEPT !.unfinished_trips = @ + 1]
        w2 == IF start[1] = "Bldg"
                THEN [Emit(w1, <<"PersonEntersBuilding", person, start[2]>>)
                        EXCEPT !.people[person + 1].state = StateInside(start[2])]
                ELSE [(IF start[3] # NoLoc
                         THEN Emit(w1, <<"PersonEntersRemoteBuilding", person, start[3]>>)
                         ELSE w1)
                        EXCEPT !.people[person + 1].state = StateOffMap]
    IN IF DepartureOutOfOrder(w, person, departure)
         THEN Panic(w2, "new_trip: departures out of order")
         ELSE [w2 EXCEPT !.people[person + 1].trips = Append(@, trip.id),
                         !.trips = Append(@, trip)]
new_trip(w, person, departure, start, mode, legs) ==
  IF Len(legs) = 0 THEN Panic(w, "new_trip: assert!(!legs.is_empty())")
  ELSE IF EndOfLegs(legs)[1] = "panic" THEN Panic(w, "new_trip: last leg has no endpoint")
  ELSE
    LET trip == NewTripRecord(w, person, departure, start, mode, legs)
        first == Len(PersonAt(w, person).trips) = 0
        w1 == [w EXCEPT !.unfinished_trips = @ + 1]
        w2 == IF ~first THEN w1
              ELSE IF start[1] = "Bldg"
                THEN [Emit(w1, <<"PersonEntersBuilding", person, start[2]>>)
                        EXCEPT !.people[person + 1].state = StateInside(start[2])]
                ELSE [(IF start[3] # NoLoc
                         THEN Emit(w1, <<"PersonEntersRemoteBuilding", person, start[3]>>)
                         ELSE w1)
                        EXCEPT !.people[person + 1].state = StateOffMap]
    IN IF DepartureOutOfOrder(w, person, departure)
         THEN Panic(w2, "new_trip: departures out of order")
         ELSE [w2 EXCEPT !.people[person + 1].trips = Append(@, trip.id),
                         !.trips = Append(@, trip)]

(***************************************************************************)
(* TripManager::agent_starting_trip_leg.                                   *)
(***************************************************************************)
agent_starting_trip_leg(w, agent, t) ==
  IF agent \in DOMAIN w.active_trip_mode
    THEN Panic(w, "agent_starting_trip_leg: agent is doing two trips")
    ELSE [w EXCEPT !.active_trip_mode = MapInsert(@, agent, t)]

(***************************************************************************)
(* TripManager::cancel_unstarted_trip.                                     *)
(***************************************************************************)
\* The cancellation of an unstarted trip that warps the person to the
\* trip's end, as cancel_trip does.
cancel_unstarted_trip_warping(w, id, reason) ==
  LET trip == TripAt(w, id) IN
  Emit([w EXCEPT !.unfinished_trips = @ - 1,
                 !.trips[id + 1].cancellation_reason = reason,
                 !.people[trip.person + 1].state =
                   IF trip.end[1] = "Bldg" THEN StateInside(trip.end[2]) ELSE StateOffMap],
       <<"TripCancelled", id>>)
cancel_unstarted_trip(w, id, reason) ==
  Emit([w EXCEPT !.unfinished_trips = @ - 1,
                 !.trips[id + 1].cancellation_reason = reason],
       <<"TripCancelled", id>>)

(***************************************************************************)
(* cancel_trip, person_finished_trip and start_trip call each other.       *)
(***************************************************************************)
RECURSIVE cancel_trip(_, _, _, _, _)
RECURSIVE person_finished_trip(_, _, _)
RECURSIVE start_trip(_, _, _, _, _, _)

\* A cancellation that leaves the person where the person was.
CancelAndWarpStaying(w, id, reason) ==
  LET trip == TripAt(w, id)
      person == trip.person
      st == PersonAt(w, person).state
      w1 == Emit([w EXCEPT !.unfinished_trips = @ - 1,
                           !.trips[id + 1].cancellation_reason = reason],
                 <<"TripCancelled", id>>)
      w2 == IF st[1] = "Inside"
              THEN Emit(w1, <<"PersonLeavesBuilding", person, st[2]>>) ELSE w1
  IN IF trip.end[1] = "Bldg"
       THEN Emit(w2, <<"PersonEntersBuilding", person, trip.end[2]>>)
       ELSE Emit(w2, <<"PersonLeavesMap", person, "None", trip.end[2], trip.end[3]>>)
\* A cancellation that also records the time as finished_at.
CancelAndWarpFinishing(w, id, reason) ==
  LET trip == TripAt(w, id)
      person == trip.person
      st == PersonAt(w, person).state
      w1 == Emit([w EXCEPT !.unfinished_trips = @ - 1,
                           !.trips[id + 1].cancellation_reason = reason,
                           !.trips[id + 1].finished_at = 0],
                 <<"TripCancelled", id>>)
      w2 == IF st[1] = "Inside"
              THEN Emit(w1, <<"PersonLeavesBuilding", person, st[2]>>) ELSE w1
      w3 == IF trip.end[1] = "Bldg"
              THEN Emit(w2, <<"PersonEntersBuilding", person, trip.end[2]>>)
              ELSE Emit(w2, <<"PersonLeavesMap", person, "None", trip.end[2], trip.end[3]>>)
  IN [w3 EXCEPT !.people[person + 1].state =
        IF trip.end[1] = "Bldg" THEN StateInside(trip.end[2]) ELSE StateOffMap]
\* A cancellation that says PersonLeavesBuilding after the arrival event.
CancelAndWarpLeavingLast(w, id, reason) ==
  LET trip == TripAt(w, id)
      person == trip.person
      st == PersonAt(w, person).state
      w1 == Emit([w EXCEPT !.unfinished_trips = @ - 1,
                           !.trips[id + 1].cancellation_reason = reason],
                 <<"TripCancelled", id>>)
      w2 == IF trip.end[1] = "Bldg"
              THEN Emit(w1, <<"PersonEntersBuilding", person, trip.end[2]>>)
              ELSE Emit(w1, <<"PersonLeavesMap", person, "None", trip.end[2], trip.end[3]>>)
      w3 == IF st[1] = "Inside"
              THEN Emit(w2, <<"PersonLeavesBuilding", person, st[2]>>) ELSE w2
  IN [w3 EXCEPT !.people[person + 1].state =
        IF trip.end[1] = "Bldg" THEN StateInside(trip.end[2]) ELSE StateOffMap]
\* cancel_trip up to the warp of the person: the counter, the reason, the
\* events and the person's new state.
CancelAndWarp(w, id, reason) ==
  LET trip == TripAt(w, id)
      person == trip.person
      st == PersonAt(w, person).state
      w1 == Emit([w EXCEPT !.unfinished_trips = @ - 1,
                           !.trips[id + 1].cancellation_reason = reason],
                 <<"TripCancelled", id>>)
      w2 == IF st[1] = "Inside"
              THEN Emit(w1, <<"PersonLeavesBuilding", person, st[2]>>) ELSE w1
      w3 == IF trip.end[1] = "Bldg"
              THEN Emit(w2, <<"PersonEntersBuilding", person, trip.end[2]>>)
              ELSE Emit(w2, <<"PersonLeavesMap", person, "None", trip.end[2], trip.end[3]>>)
  IN [w3 EXCEPT !.people[person + 1].state =
        IF trip.end[1] = "Bldg" THEN StateInside(trip.end[2]) ELSE StateOffMap]

\* A warp that parks bikes too.
WarpVehicleOfAnyType(w, t_now, id, vehicle) ==
  LET trip == TripAt(w, id) IN
  IF trip.end[1] = "Bldg"
    THEN {IF spot[1] = "None"
            THEN Emit(w, <<"Alert", trip.person, "nowhere to warp their car">>)
            ELSE [Emit(w, <<"Alert", trip.person, "car was warped">>) EXCEPT
                    !.parking = MapInsert(@, vehicle.id, [spot |-> spot]),
                    !.parking_calls = @ \o <<<<"reserve_spot", spot>>,
                                             <<"add_parked_car", vehicle.id, spot, t_now>>>>]
          : spot \in FreeSpotAnswers(w)}
    ELSE {w}
\* "Don't forget the car!": a car abandoned on the way to a building is
\* parked at a free spot, if the parking manager finds one.
WarpVehicle(w, t_now, id, vehicle) ==
  LET trip == TripAt(w, id) IN
  IF vehicle.vehicle_type = "Car" /\ trip.end[1] = "Bldg"
    THEN {IF spot[1] = "None"
            THEN Emit(w, <<"Alert", trip.person, "nowhere to warp their car">>)
            ELSE [Emit(w, <<"Alert", trip.person, "car was warped">>) EXCEPT
                    !.parking = MapInsert(@, vehicle.id, [spot |-> spot]),
                    !.parking_calls = @ \o <<<<"reserve_spot", spot>>,
                                             <<"add_parked_car", vehicle.id, spot, t_now>>>>]
          : spot \in FreeSpotAnswers(w)}
    ELSE {w}

\* The clean-up left out: the Car agent stays bound.
CleanUpDrivingAgentKeepingCar(w, id) ==
  IF Len(TripAt(w, id).legs) = 0 THEN Panic(w, "cancel_trip: legs[0] of an empty queue")
  ELSE w
\* No vehicle given: a Car agent still bound for the head Drive leg is
\* unbound, and must have been bound to this trip.
CleanUpDrivingAgent(w, id) ==
  LET trip == TripAt(w, id) IN
  IF Len(trip.legs) = 0 THEN Panic(w, "cancel_trip: legs[0] of an empty queue")
  ELSE IF trip.legs[1].leg = "Drive" /\ Car(trip.legs[1].car) \in DOMAIN w.active_trip_mode
    THEN IF w.active_trip_mode[Car(trip.legs[1].car)] # id
           THEN Panic(w, "cancel_trip: assert_eq!(t, trip.id)")
           ELSE [w EXCEPT !.active_trip_mode = MapRemove(@, Car(trip.legs[1].car))]
  ELSE w

cancel_trip(w, t_now, id, reason, abandoned_vehicle) ==
  LET person == TripAt(w, id).person
      w1 == CancelAndWarp(w, id, reason)
      S == IF abandoned_vehicle # NoVehicle
             THEN WarpVehicle(w1, t_now, id, abandoned_vehicle)
             ELSE {CleanUpDrivingAgent(w1, id)}
  IN Then(S, LAMBDA x : person_finished_trip(x, t_now, person))

\* The trips that waited are left waiting.
person_finished_trip_idle(w, t_now, person) == {w}
\* The queue popped at the back.
person_finished_trip_lifo(w, t_now, person) ==
  LET p == PersonAt(w, person)
      n == Len(p.delayed_trips)
  IN IF n = 0 THEN {w}
     ELSE LET d == p.delayed_trips[n]
              w1 == [w EXCEPT !.people[person + 1].delayed_trips = SubSeq(@, 1, n - 1)]
          IN start_trip(w1, t_now, d.trip, d.spec, d.maybe_req, d.maybe_path)
person_finished_trip(w, t_now, person) ==
  LET p == PersonAt(w, person) IN
  IF Len(p.delayed_trips) = 0 THEN {w}
  ELSE LET d == p.delayed_trips[1]
           w1 == [w EXCEPT !.people[person + 1].delayed_trips = PopFront(@)]
       IN start_trip(w1, t_now, d.trip, d.spec, d.maybe_req, d.maybe_path)

(***************************************************************************)
(* TripManager::start_trip, one operator per TripSpec variant.             *)
(***************************************************************************)
\* trip.started = true moved above the deferral.
DeferTripStarted(w, trip, spec, maybe_req, maybe_path) ==
  LET person == TripAt(w, trip).person IN
  Emit([w EXCEPT !.trips[trip + 1].started = TRUE,
                 !.people[person + 1].delayed_trips =
                   Append(@, [trip |-> trip, spec |-> spec, maybe_req |-> maybe_req,
                              maybe_path |-> maybe_path])],
       <<"TripPhaseStarting", trip, person, "DelayedStart">>)
\* "Previous trip isn't done. Defer this one!"
DeferTrip(w, trip, spec, maybe_req, maybe_path) ==
  LET person == TripAt(w, trip).person IN
  Emit([w EXCEPT !.people[person + 1].delayed_trips =
          Append(@, [trip |-> trip, spec |-> spec, maybe_req |-> maybe_req,
                     maybe_path |-> maybe_path])],
       <<"TripPhaseStarting", trip, person, "DelayedStart">>)

\* A cap rejection that leaves the parked car where it is.
ValidateAndSpawnCarKeepingParked(w, t_now, trip, person, car, goal, retry, parked, why) ==
  UNION {
    IF cap = "ok"
      THEN {Push(w, SpawnCar(t_now, car, goal, trip, person, retry, parked))}
      ELSE cancel_trip([w EXCEPT !.trips[trip + 1].capped = TRUE], t_now, trip, why,
                       Vehicle(car))
    : cap \in CapAnswers}
\* ctx.cap.validate_path(.., &mut capped, ..) on a path, then SpawnCar or
\* the cancellation that passes the vehicle on.
ValidateAndSpawnCar(w, t_now, trip, person, car, goal, retry, parked, why) ==
  UNION {
    IF cap = "ok"
      THEN {Push(w, SpawnCar(t_now, car, goal, trip, person, retry, parked))}
    ELSE LET w1 == [w EXCEPT !.trips[trip + 1].capped = TRUE]
             w2 == IF parked
                     THEN [w1 EXCEPT !.parking = MapRemove(@, car),
                             !.parking_calls = Append(@, <<"remove_parked_car", car>>)]
                     ELSE w1
         IN cancel_trip(w2, t_now, trip, why, Vehicle(car))
    : cap \in CapAnswers}

StartVehicleAppearing(w, t_now, trip, spec, maybe_req, maybe_path) ==
  LET person == TripAt(w, trip).person
      p == PersonAt(w, person)
      w1 == [Emit(w, <<"PersonEntersMap", person, Car(spec.car), BorderI, spec.start[3]>>)
               EXCEPT !.people[person + 1].state = StateTrip(trip)]
  IN IF p.state # StateOffMap
       THEN {Panic(w, "start_trip: assert_eq!(person.state, OffMap)")}
     ELSE IF ~HasVehicle(p, spec.car)
       THEN {Panic(w1, "get_vehicle: unwrap on None")}
     ELSE IF spec.car \in DOMAIN w.parking
       THEN {Panic(w1, "start_trip: assert!(lookup_parked_car(vehicle.id).is_none())")}
     ELSE IF ~maybe_req
       THEN {Panic(w1, "start_trip: maybe_req.unwrap()")}
     ELSE IF ~maybe_path
       THEN cancel_trip(w1, t_now, trip, "VehicleAppearing trip couldn't find the first path",
                        Vehicle(spec.car))
     ELSE ValidateAndSpawnCar(w1, t_now, trip, person, spec.car, spec.goal,
                              spec.retry_if_no_room, FALSE,
                              "VehicleAppearing trip couldn't find the first path")

StartNoRoomToSpawn(w, t_now, trip, spec) ==
  LET person == TripAt(w, trip).person
      p == PersonAt(w, person)
  IN IF ~HasVehicle(p, spec.car) THEN {Panic(w, "get_vehicle: unwrap on None")}
     ELSE cancel_trip(w, t_now, trip, "couldn't spawn at border", Vehicle(spec.car))

StartUsingParkedCar(w, t_now, trip, spec) ==
  LET person == TripAt(w, trip).person
      p == PersonAt(w, person)
      w1 == [w EXCEPT !.people[person + 1].state = StateTrip(trip)]
  IN IF p.state # StateInside(spec.start[2])
       THEN {Panic(w, "start_trip: assert_eq!(person.state, Inside(start_bldg))")}
     ELSE IF spec.car \in DOMAIN w.parking
       THEN UNION {
              IF found
                THEN {Push(w1, SpawnPed(t_now, POIParkingSpot(w.parking[spec.car].spot),
                                        trip, person))}
                ELSE cancel_trip([w1 EXCEPT !.parking = MapRemove(@, spec.car),
                                    !.parking_calls = Append(@, <<"remove_parked_car", spec.car>>)],
                                 t_now, trip,
                                 "UsingParkedCar trip couldn't find the walking path",
                                 Vehicle(spec.car))
              : found \in PathfindAnswers}
     ELSE cancel_trip(w1, t_now, trip, "should have car parked somewhere, but it's unavailable",
                      NoVehicle)

\* The match inside assert_eq! of JustWalking and UsingTransit: the state
\* the person must be in, and the PersonEntersMap it pushes on the way.
WalkStartKnown(start) == start[1] \in {"Building", "Border", "SuddenlyAppear"}
WalkStartState(start) ==
  IF start[1] = "Building" THEN StateInside(start[2]) ELSE StateOffMap
WalkStartEvents(w, person, start) ==
  IF start[1] = "Building" THEN w
  ELSE Emit(w, <<"PersonEntersMap", person, Pedestrian(PersonAt(w, person).ped),
                 BorderI, start[3]>>)

\* A start on foot that pushes SpawnPed also for the trip it cancels.
StartOnFootSpawningAnyway(w, t_now, trip, spec, walk_to, maybe_req, maybe_path, why) ==
  LET person == TripAt(w, trip).person
      p == PersonAt(w, person)
      w1 == WalkStartEvents(w, person, spec.start)
      w2 == [w1 EXCEPT !.people[person + 1].state = StateTrip(trip)]
      w3 == Push(w2, SpawnPed(t_now, walk_to, trip, person))
  IN IF ~WalkStartKnown(spec.start) THEN {Panic(w, "start_trip: unreachable!()")}
     ELSE IF p.state # WalkStartState(spec.start)
       THEN {Panic(w1, "start_trip: assert_eq!(person.state, ..)")}
     ELSE IF ~maybe_req THEN {Panic(w2, "start_trip: maybe_req.unwrap()")}
     ELSE IF maybe_path THEN {w3}
     ELSE cancel_trip(w3, t_now, trip, why, NoVehicle)
\* JustWalking and UsingTransit: SpawnPed toward walk_to, or cancel.
StartOnFoot(w, t_now, trip, spec, walk_to, maybe_req, maybe_path, why) ==
  LET person == TripAt(w, trip).person
      p == PersonAt(w, person)
      w1 == WalkStartEvents(w, person, spec.start)
      w2 == [w1 EXCEPT !.people[person + 1].state = StateTrip(trip)]
  IN IF ~WalkStartKnown(spec.start) THEN {Panic(w, "start_trip: unreachable!()")}
     ELSE IF p.state # WalkStartState(spec.start)
       THEN {Panic(w1, "start_trip: assert_eq!(person.state, ..)")}
     ELSE IF ~maybe_req THEN {Panic(w2, "start_trip: maybe_req.unwrap()")}
     ELSE IF maybe_path THEN {Push(w2, SpawnPed(t_now, walk_to, trip, person))}
     ELSE cancel_trip(w2, t_now, trip, why, NoVehicle)

StartJustWalking(w, t_now, trip, spec, maybe_req, maybe_path) ==
  StartOnFoot(w, t_now, trip, spec, spec.goal, maybe_req, maybe_path,
              "JustWalking trip couldn't find the first path")

StartUsingTransit(w, t_now, trip, spec, maybe_req, maybe_path) ==
  StartOnFoot(w, t_now, trip, spec, POIBusStop(spec.stop1), maybe_req, maybe_path,
              "UsingTransit trip couldn't find the first path")

\* SidewalkSpot::bike_rack(start, map) is Some or None, as the map has it.
BikeRackAnswers == BOOLEAN

StartUsingBike(w, t_now, trip, spec, maybe_req, maybe_path) ==
  LET person == TripAt(w, trip).person
      p == PersonAt(w, person)
      w1 == [w EXCEPT !.people[person + 1].state = StateTrip(trip)]
  IN IF p.state # StateInside(spec.start[2])
       THEN {Panic(w, "start_trip: assert_eq!(person.state, Inside(start))")}
     ELSE UNION {
            IF ~rack
              THEN cancel_trip(w1, t_now, trip,
                               "UsingBike trip couldn't find a way to start biking", NoVehicle)
            ELSE IF ~maybe_req THEN {Panic(w1, "start_trip: maybe_req.unwrap()")}
            ELSE IF maybe_path
              THEN {Push(w1, SpawnPed(t_now, POIBikeRack(spec.start[2]), trip, person))}
            ELSE cancel_trip(w1, t_now, trip, "UsingBike trip couldn't find the first path",
                             NoVehicle)
            : rack \in BikeRackAnswers}

\* A remote start whose FinishRemoteTrip is due at once.
StartRemoteArrivingAtOnce(w, t_now, trip, spec) ==
  LET person == TripAt(w, trip).person
      p == PersonAt(w, person)
      w1 == [w EXCEPT !.people[person + 1].state = StateTrip(trip)]
      w2 == Emit(w1, <<"PersonLeavesRemoteBuilding", person, spec.start[3]>>)
      w3 == Push(w2, FinishRemoteTrip(t_now, trip, person))
  IN IF p.state # StateOffMap
       THEN {Panic(w, "start_trip: assert_eq!(person.state, OffMap)")}
       ELSE {Emit(w3, <<"TripPhaseStarting", trip, person, "Remote">>)}
StartRemote(w, t_now, trip, spec) ==
  LET person == TripAt(w, trip).person
      p == PersonAt(w, person)
      w1 == [w EXCEPT !.people[person + 1].state = StateTrip(trip)]
      w2 == Emit(w1, <<"PersonLeavesRemoteBuilding", person, spec.start[3]>>)
      w3 == Push(w2, FinishRemoteTrip(t_now + spec.trip_time, trip, person))
  IN IF p.state # StateOffMap
       THEN {Panic(w, "start_trip: assert_eq!(person.state, OffMap)")}
       ELSE {Emit(w3, <<"TripPhaseStarting", trip, person, "Remote">>)}

\* The match on the TripSpec, after started = true.
Dispatch(w, t_now, trip, spec, maybe_req, maybe_path) ==
  CASE spec.kind = "VehicleAppearing" ->
         StartVehicleAppearing(w, t_now, trip, spec, maybe_req, maybe_path)
    [] spec.kind = "NoRoomToSpawn" -> StartNoRoomToSpawn(w, t_now, trip, spec)
    [] spec.kind = "UsingParkedCar" -> StartUsingParkedCar(w, t_now, trip, spec)
    [] spec.kind = "JustWalking" ->
         StartJustWalking(w, t_now, trip, spec, maybe_req, maybe_path)
    [] spec.kind = "UsingBike" -> StartUsingBike(w, t_now, trip, spec, maybe_req, maybe_path)
    [] spec.kind = "UsingTransit" ->
         StartUsingTransit(w, t_now, trip, spec, maybe_req, maybe_path)
    [] spec.kind = "Remote" -> StartRemote(w, t_now, trip, spec)

\* The path start_trip works with: found now when pathfinding was not done
\* up front and a request came without a path.
LazyPaths(w, maybe_req, maybe_path) ==
  IF ~w.pathfinding_upfront /\ ~maybe_path /\ maybe_req
    THEN PathfindAnswers ELSE {maybe_path}

\* The deferral taken only behind trips that already wait.
MustDeferBehindQueue(w, person) == Len(PersonAt(w, person).delayed_trips) > 0
\* Whether start_trip defers the trip: the person is still in Trip(_).
MustDefer(w, person) == InTrip(PersonAt(w, person).state)

start_trip(w, t_now, trip, spec, maybe_req, maybe_path) ==
  IF TripAt(w, trip).cancellation_reason # NoReason
    THEN {Panic(w, "start_trip: assert!(cancellation_reason.is_none())")}
  ELSE UNION {
         IF MustDefer(w, TripAt(w, trip).person)
           THEN {DeferTrip(w, trip, spec, maybe_req, path)}
           ELSE Dispatch([w EXCEPT !.trips[trip + 1].started = TRUE],
                         t_now, trip, spec, maybe_req, path)
         : path \in LazyPaths(w, maybe_req, maybe_path)}

(***************************************************************************)
(* The leg-completion handlers.                                            *)
(***************************************************************************)
Bound(w, agent) == agent \in DOMAIN w.active_trip_mode

\* The agent looked up with get instead of remove.
UnbindNothing(w, agent) == w
\* self.active_trip_mode.remove(&agent), and trip.total_blocked_time +=
\* blocked_time on the trip it was bound to.
Unbind(w, agent) == [w EXCEPT !.active_trip_mode = MapRemove(@, agent)]
\* The blocked time booked on the first trip, whatever the agent's trip.
AddBlockedToFirst(w, id, blocked_time) ==
  [w EXCEPT !.trips[1].total_blocked_time = @ + blocked_time]
AddBlocked(w, id, blocked_time) ==
  [w EXCEPT !.trips[id + 1].total_blocked_time = @ + blocked_time]
\* The leg taken from the back of the queue.
PopLastLeg(w, id) == [w EXCEPT !.trips[id + 1].legs = SubSeq(@, 1, Len(@) - 1)]
PopLeg(w, id) == [w EXCEPT !.trips[id + 1].legs = PopFront(@)]

\* Trip::assert_walking_leg: the head leg is Walk(goal).
HeadIsWalkTo(w, id, goal) ==
  LET legs == TripAt(w, id).legs IN
  Len(legs) > 0 /\ legs[1].leg = "Walk" /\ legs[1].spot = goal

\* The finishing block timing the trip from the call itself.
FinishTripFromNow(w, t_now, id) ==
  LET trip == TripAt(w, id) IN
  Emit([w EXCEPT !.trips[id + 1].finished_at = t_now,
                 !.unfinished_trips = @ - 1],
       <<"TripFinished", id, trip.mode, 0, trip.total_blocked_time>>)
\* The block every finishing handler repeats: finished_at, the counter and
\* the TripFinished event.
FinishTrip(w, t_now, id) ==
  LET trip == TripAt(w, id) IN
  Emit([w EXCEPT !.trips[id + 1].finished_at = t_now,
                 !.unfinished_trips = @ - 1],
       <<"TripFinished", id, trip.mode, t_now - trip.departure, trip.total_blocked_time>>)

\* Trip::spawn_ped: the worlds it can end in, each with the bool it returns.
spawn_ped(w, t_now, id, start) ==
  LET trip == TripAt(w, id) IN
  IF Len(trip.legs) = 0 THEN {[w |-> Panic(w, "spawn_ped: legs[0] of an empty queue"), ok |-> FALSE]}
  ELSE IF trip.legs[1].leg # "Walk" THEN {[w |-> Panic(w, "spawn_ped: unreachable!()"), ok |-> FALSE]}
  ELSE {IF found
          THEN [w |-> Push(w, SpawnPed(t_now, trip.legs[1].spot, id, trip.person)), ok |-> TRUE]
          ELSE [w |-> Emit(w, <<"Alert", trip.person, "no path for the walking portion">>),
                ok |-> FALSE]
        : found \in PathfindAnswers}

\* if !trip.spawn_ped(..) { self.unfinished_trips -= 1; }
SpawnPedOrGiveUp(w, t_now, id, start) ==
  {IF r.ok \/ r.w.panic # "" THEN r.w ELSE [r.w EXCEPT !.unfinished_trips = @ - 1]
   : r \in spawn_ped(w, t_now, id, start)}

\* The park-inside-destination case of car_reached_parking_spot.
ParkedInsideDestination(w, id, spot) ==
  LET legs == TripAt(w, id).legs IN
  /\ spot[1] = "Offstreet"
  /\ legs[1].spot = POIBuilding(spot[2])

car_reached_parking_spot(w, t_now, car, spot, blocked_time) ==
  IF ~Bound(w, Car(car)) THEN {Panic(w, "car_reached_parking_spot: unwrap on None")}
  ELSE
    LET id == w.active_trip_mode[Car(car)]
        legs == TripAt(w, id).legs
        w1 == AddBlocked(Unbind(w, Car(car)), id, blocked_time)
        w2 == PopLeg(w1, id)
        person == TripAt(w, id).person
    IN IF ~(Len(legs) > 0 /\ legs[1].leg = "Drive" /\ legs[1].goal[1] = "ParkNear")
         THEN {Panic(w1, "car_reached_parking_spot: unreachable!()")}
       ELSE IF legs[1].car # car
         THEN {Panic(w2, "car_reached_parking_spot: assert_eq!(car, c)")}
       ELSE IF Len(legs) < 2
         THEN {Panic(w2, "car_reached_parking_spot: legs[0] of an empty queue")}
       ELSE IF legs[2].leg # "Walk"
         THEN {Panic(w2, "car_reached_parking_spot: unreachable!()")}
       ELSE IF ParkedInsideDestination(w2, id, spot)
         THEN IF Len(legs) # 2
                THEN {Panic(w2, "car_reached_parking_spot: assert_eq!(trip.legs.len(), 1)")}
              ELSE IF TripAt(w2, id).finished_at # NoTime
                THEN {Panic(w2, "car_reached_parking_spot: assert!(!finished_at.is_some())")}
              ELSE LET w3 == FinishTrip(w2, t_now, id)
                       w4 == Emit([w3 EXCEPT !.people[person + 1].state = StateInside(spot[2])],
                                  <<"PersonEntersBuilding", person, spot[2]>>)
                   IN person_finished_trip(w4, t_now, person)
       ELSE SpawnPedOrGiveUp(w2, t_now, id, POIParkingSpot(spot))

\* ctx.parking.get_car_at_spot(spot)
CarAtSpot(w, spot) == {c \in DOMAIN w.parking : w.parking[c].spot = spot}

ped_reached_parking_spot(w, t_now, ped, spot, blocked_time) ==
  LET w0 == Emit(w, <<"PedReachedParkingSpot", ped, spot>>) IN
  IF ~Bound(w, Pedestrian(ped)) THEN {Panic(w0, "ped_reached_parking_spot: unwrap on None")}
  ELSE
    LET id == w.active_trip_mode[Pedestrian(ped)]
        person == TripAt(w, id).person
        legs == TripAt(w, id).legs
        w1 == AddBlocked(Unbind(w0, Pedestrian(ped)), id, blocked_time)
        w2 == PopLeg(w1, id)
    IN IF ~HeadIsWalkTo(w, id, POIDeferredParkingSpot)
         THEN {Panic(w1, "assert_walking_leg")}
       ELSE IF CarAtSpot(w, spot) = {}
         THEN {Panic(w2, "ped_reached_parking_spot: get_car_at_spot(spot).unwrap()")}
       ELSE IF Len(legs) < 2
         THEN {Panic(w2, "ped_reached_parking_spot: legs[0] of an empty queue")}
       ELSE IF legs[2].leg # "Drive"
         THEN {Panic(w2, "ped_reached_parking_spot: unreachable!()")}
       ELSE IF legs[2].car \notin CarAtSpot(w, spot)
         THEN {Panic(w2, "ped_reached_parking_spot: assert_eq!(c, parked_car.vehicle.id)")}
       ELSE
         LET car == legs[2].car
             w3 == IF spot[1] = "Offstreet"
                     THEN Emit(w2, <<"PersonEntersBuilding", person, spot[2]>>) ELSE w2
             removed == [w3 EXCEPT !.parking = MapRemove(@, car),
                           !.parking_calls = Append(@, <<"remove_parked_car", car>>)]
         IN UNION {
              IF found
                THEN ValidateAndSpawnCar(w3, t_now, id, person, car, legs[2].goal, TRUE, TRUE,
                                         "no path to drive")
                ELSE cancel_trip(removed, t_now, id, "no path to drive", Vehicle(car))
              : found \in PathfindAnswers}

\* drive_to.goal_pos(PathConstraints::Bike, map) is Some or None.
GoalPosAnswers == BOOLEAN

ped_ready_to_bike(w, t_now, ped, spot, blocked_time) ==
  IF ~Bound(w, Pedestrian(ped)) THEN {Panic(w, "ped_ready_to_bike: unwrap on None")}
  ELSE
    LET id == w.active_trip_mode[Pedestrian(ped)]
        person == TripAt(w, id).person
        legs == TripAt(w, id).legs
        w1 == AddBlocked(Unbind(w, Pedestrian(ped)), id, blocked_time)
        w2 == PopLeg(w1, id)
    IN IF ~HeadIsWalkTo(w, id, spot) THEN {Panic(w1, "assert_walking_leg")}
       ELSE IF Len(legs) < 2
         THEN {Panic(w2, "ped_ready_to_bike: legs[0] of an empty queue")}
       ELSE IF legs[2].leg # "Drive" \/ spot[1] # "BikeRack"
         THEN {Panic(w2, "ped_ready_to_bike: unreachable!()")}
       ELSE UNION {
              IF ~answer[1]
                THEN cancel_trip(w2, t_now, id, "no bike connection", NoVehicle)
              ELSE IF answer[2]
                THEN IF HasVehicle(PersonAt(w2, person), legs[2].car)
                       THEN {Push(w2, SpawnCar(t_now, legs[2].car, legs[2].goal, id, person,
                                               TRUE, FALSE))}
                       ELSE {Panic(w2, "get_vehicle: unwrap on None")}
              ELSE cancel_trip(w2, t_now, id, "no path for the bike portion", NoVehicle)
              : answer \in GoalPosAnswers \X PathfindAnswers}

bike_reached_end(w, t_now, bike, bike_rack, blocked_time) ==
  LET w0 == Emit(w, <<"BikeStoppedAtSidewalk", bike>>) IN
  IF ~Bound(w, Car(bike)) THEN {Panic(w0, "bike_reached_end: unwrap on None")}
  ELSE
    LET id == w.active_trip_mode[Car(bike)]
        legs == TripAt(w, id).legs
        w1 == AddBlocked(Unbind(w0, Car(bike)), id, blocked_time)
        w2 == PopLeg(w1, id)
    IN IF ~(Len(legs) > 0 /\ legs[1].leg = "Drive" /\ legs[1].goal[1] = "ParkNear")
         THEN {Panic(w1, "bike_reached_end: unreachable!()")}
       ELSE IF legs[1].car # bike
         THEN {Panic(w2, "bike_reached_end: assert_eq!(c, bike)")}
       ELSE SpawnPedOrGiveUp(w2, t_now, id, bike_rack)

\* Arriving home without looking at the trips that waited for this one.
ped_reached_building_without_drain(w, t_now, ped, bldg, blocked_time) ==
  IF ~Bound(w, Pedestrian(ped)) THEN {Panic(w, "ped_reached_building: unwrap on None")}
  ELSE
    LET id == w.active_trip_mode[Pedestrian(ped)]
        person == TripAt(w, id).person
        w1 == AddBlocked(Unbind(w, Pedestrian(ped)), id, blocked_time)
        w2 == PopLeg(w1, id)
    IN IF ~HeadIsWalkTo(w, id, POIBuilding(bldg)) THEN {Panic(w1, "assert_walking_leg")}
       ELSE IF Len(TripAt(w2, id).legs) # 0
         THEN {Panic(w2, "ped_reached_building: assert!(trip.legs.is_empty())")}
       ELSE IF TripAt(w2, id).finished_at # NoTime
         THEN {Panic(w2, "ped_reached_building: assert!(!finished_at.is_some())")}
       ELSE LET w3 == FinishTrip(w2, t_now, id)
            IN {Emit([w3 EXCEPT !.people[person + 1].state = StateInside(bldg)],
                     <<"PersonEntersBuilding", person, bldg>>)}
ped_reached_building(w, t_now, ped, bldg, blocked_time) ==
  IF ~Bound(w, Pedestrian(ped)) THEN {Panic(w, "ped_reached_building: unwrap on None")}
  ELSE
    LET id == w.active_trip_mode[Pedestrian(ped)]
        person == TripAt(w, id).person
        w1 == AddBlocked(Unbind(w, Pedestrian(ped)), id, blocked_time)
        w2 == PopLeg(w1, id)
    IN IF ~HeadIsWalkTo(w, id, POIBuilding(bldg)) THEN {Panic(w1, "assert_walking_leg")}
       ELSE IF Len(TripAt(w2, id).legs) # 0
         THEN {Panic(w2, "ped_reached_building: assert!(trip.legs.is_empty())")}
       ELSE IF TripAt(w2, id).finished_at # NoTime
         THEN {Panic(w2, "ped_reached_building: assert!(!finished_at.is_some())")}
       ELSE LET w3 == FinishTrip(w2, t_now, id)
                w4 == Emit([w3 EXCEPT !.people[person + 1].state = StateInside(bldg)],
                           <<"PersonEntersBuilding", person, bldg>>)
            IN person_finished_trip(w4, t_now, person)

\* Boarding that leaves the pedestrian bound next to the passenger.
BoardBusKeepingWalker(w, id, ped, bus) ==
  LET person == TripAt(w, id).person IN
  [PopLeg(w, id) EXCEPT
     !.active_trip_mode = MapInsert(@, BusPassenger(person, bus), id),
     !.people[person + 1].on_bus = bus]
\* Boarding that leaves the walk leg at the head of the queue.
BoardBusKeepingLeg(w, id, ped, bus) ==
  LET person == TripAt(w, id).person IN
  [w EXCEPT
     !.active_trip_mode = MapInsert(MapRemove(@, Pedestrian(ped)),
                                    BusPassenger(person, bus), id),
     !.people[person + 1].on_bus = bus]
\* The block ped_reached_bus_stop and ped_boarded_bus share: the walk leg is
\* popped, Pedestrian(ped) gives way to BusPassenger(person, bus) and on_bus
\* is set.  The insertion is a plain BTreeMap insert.
BoardBus(w, id, ped, bus) ==
  LET person == TripAt(w, id).person IN
  [PopLeg(w, id) EXCEPT
     !.active_trip_mode = MapInsert(MapRemove(@, Pedestrian(ped)),
                                    BusPassenger(person, bus), id),
     !.people[person + 1].on_bus = bus]

\* A handler that pops the walk leg also when no bus is there.
ped_reached_bus_stop_popping(w, t_now, ped, stop, blocked_time, maybe_bus) ==
  IF ~Bound(w, Pedestrian(ped)) THEN Panic(w, "ped_reached_bus_stop: no entry found for key")
  ELSE
    LET id == w.active_trip_mode[Pedestrian(ped)]
        person == TripAt(w, id).person
        legs == TripAt(w, id).legs
        w1 == AddBlocked(w, id, blocked_time)
    IN IF Len(legs) = 0 THEN Panic(w1, "ped_reached_bus_stop: legs[0] of an empty queue")
       ELSE IF legs[1].leg # "Walk" THEN Panic(w1, "ped_reached_bus_stop: unreachable!()")
       ELSE IF legs[1].spot # POIBusStop(stop)
         THEN Panic(w1, "ped_reached_bus_stop: assert_eq!(*spot, bus_stop(stop))")
       ELSE IF Len(legs) < 2 THEN Panic(w1, "ped_reached_bus_stop: legs[1] out of bounds")
       ELSE IF legs[2].leg # "RideBus" THEN Panic(w1, "ped_reached_bus_stop: unreachable!()")
       ELSE LET w2 == Emit(w1, <<"TripPhaseStarting", id, person, "WaitingForBus">>)
            IN IF maybe_bus # NoCar THEN BoardBus(w2, id, ped, maybe_bus)
               ELSE [PopLeg(w2, id) EXCEPT !.returned = <<"Some", legs[2].route>>]
\* maybe_bus is what transit.ped_waiting_for_bus answers: a bus that is at
\* the stop now, or NoCar.
ped_reached_bus_stop(w, t_now, ped, stop, blocked_time, maybe_bus) ==
  IF ~Bound(w, Pedestrian(ped)) THEN Panic(w, "ped_reached_bus_stop: no entry found for key")
  ELSE
    LET id == w.active_trip_mode[Pedestrian(ped)]
        person == TripAt(w, id).person
        legs == TripAt(w, id).legs
        w1 == AddBlocked(w, id, blocked_time)
    IN IF Len(legs) = 0 THEN Panic(w1, "ped_reached_bus_stop: legs[0] of an empty queue")
       ELSE IF legs[1].leg # "Walk" THEN Panic(w1, "ped_reached_bus_stop: unreachable!()")
       ELSE IF legs[1].spot # POIBusStop(stop)
         THEN Panic(w1, "ped_reached_bus_stop: assert_eq!(*spot, bus_stop(stop))")
       ELSE IF Len(legs) < 2 THEN Panic(w1, "ped_reached_bus_stop: legs[1] out of bounds")
       ELSE IF legs[2].leg # "RideBus" THEN Panic(w1, "ped_reached_bus_stop: unreachable!()")
       ELSE LET w2 == Emit(w1, <<"TripPhaseStarting", id, person, "WaitingForBus">>)
            IN IF maybe_bus # NoCar THEN BoardBus(w2, id, ped, maybe_bus)
               ELSE [w2 EXCEPT !.returned = <<"Some", legs[2].route>>]

ped_boarded_bus(w, t_now, ped, bus, blocked_time) ==
  IF ~Bound(w, Pedestrian(ped)) THEN Panic(w, "ped_boarded_bus: unwrap on None")
  ELSE LET id == w.active_trip_mode[Pedestrian(ped)]
       IN BoardBus(AddBlocked(w, id, blocked_time), id, ped, bus)

person_left_bus(w, t_now, person, bus) ==
  IF ~Bound(w, BusPassenger(person, bus)) THEN {Panic(w, "person_left_bus: unwrap on None")}
  ELSE
    LET id == w.active_trip_mode[BusPassenger(person, bus)]
        legs == TripAt(w, id).legs
        w1 == Unbind(w, BusPassenger(person, bus))
        w2 == PopLeg(w1, id)
        w3 == [w2 EXCEPT !.people[person + 1].on_bus = NoCar]
    IN IF Len(legs) = 0 THEN {Panic(w1, "person_left_bus: pop_front().unwrap()")}
       ELSE IF legs[1].leg # "RideBus" THEN {Panic(w2, "person_left_bus: unreachable!()")}
       ELSE IF legs[1].stop2 = NoStop
         THEN {Panic(w2, "someone left a bus, even though they should've ridden off-map")}
       ELSE IF PersonAt(w, person).on_bus = NoCar
         THEN {Panic(w2, "person_left_bus: on_bus.take().unwrap()")}
       ELSE SpawnPedOrGiveUp(w3, t_now, id, POIBusStop(legs[1].stop2))

\* Leaving the map on foot with the state left as Trip(t).
ped_reached_border_staying_on_trip(w, t_now, ped, i, blocked_time) ==
  IF ~Bound(w, Pedestrian(ped)) THEN {Panic(w, "ped_reached_border: unwrap on None")}
  ELSE
    LET id == w.active_trip_mode[Pedestrian(ped)]
        trip == TripAt(w, id)
        person == trip.person
        legs == trip.legs
        w1 == AddBlocked(Unbind(w, Pedestrian(ped)), id, blocked_time)
        w2 == PopLeg(w1, id)
    IN IF ~(Len(legs) = 1 /\ legs[1].leg = "Walk" /\ legs[1].spot[1] = "Border"
            /\ legs[1].spot[2] = i /\ trip.finished_at = NoTime)
         THEN {Panic(w2, "ped_reached_border")}
       ELSE LET w3 == FinishTrip(w2, t_now, id)
                w4 == Emit(w3, <<"PersonLeavesMap", person, Pedestrian(ped), i, trip.end[3]>>)
            IN person_finished_trip(w4, t_now, person)
ped_reached_border(w, t_now, ped, i, blocked_time) ==
  IF ~Bound(w, Pedestrian(ped)) THEN {Panic(w, "ped_reached_border: unwrap on None")}
  ELSE
    LET id == w.active_trip_mode[Pedestrian(ped)]
        trip == TripAt(w, id)
        person == trip.person
        legs == trip.legs
        w1 == AddBlocked(Unbind(w, Pedestrian(ped)), id, blocked_time)
        w2 == PopLeg(w1, id)
    IN IF ~(Len(legs) > 0 /\ legs[1].leg = "Walk" /\ legs[1].spot[1] = "Border")
         THEN {Panic(w2, "ped_reached_border: unreachable!()")}
       ELSE IF legs[1].spot[2] # i THEN {Panic(w2, "ped_reached_border: assert_eq!(i, i2)")}
       ELSE IF Len(legs) # 1
         THEN {Panic(w2, "ped_reached_border: assert!(trip.legs.is_empty())")}
       ELSE IF trip.finished_at # NoTime
         THEN {Panic(w2, "ped_reached_border: assert!(!finished_at.is_some())")}
       ELSE LET w3 == FinishTrip(w2, t_now, id)
                w4 == IF trip.end[1] = "Border"
                        THEN Emit(w3, <<"PersonLeavesMap", person, Pedestrian(ped), i, trip.end[3]>>)
                        ELSE w3
                w5 == [w4 EXCEPT !.people[person + 1].state = StateOffMap]
            IN person_finished_trip(w5, t_now, person)

transit_rider_reached_border(w, t_now, person, bus) ==
  LET agent == BusPassenger(person, bus) IN
  IF ~Bound(w, agent) THEN {Panic(w, "transit_rider_reached_border: unwrap on None")}
  ELSE
    LET id == w.active_trip_mode[agent]
        trip == TripAt(w, id)
        legs == trip.legs
        w1 == Unbind(w, agent)
        w2 == PopLeg(w1, id)
    IN IF ~(Len(legs) > 0 /\ legs[1].leg = "RideBus")
         THEN {Panic(w2, "transit_rider_reached_border: unreachable!()")}
       ELSE IF legs[1].stop2 # NoStop
         THEN {Panic(w2, "transit_rider_reached_border: assert!(maybe_spot2.is_none())")}
       ELSE IF Len(legs) # 1
         THEN {Panic(w2, "transit_rider_reached_border: assert!(trip.legs.is_empty())")}
       ELSE IF trip.finished_at # NoTime
         THEN {Panic(w2, "transit_rider_reached_border: assert!(!finished_at.is_some())")}
       ELSE IF trip.end[1] # "Border"
         THEN {Panic(w2, "transit_rider_reached_border: unreachable!()")}
       ELSE LET w3 == FinishTrip(w2, t_now, id)
                w4 == Emit(w3, <<"PersonLeavesMap", trip.person, agent, trip.end[2], trip.end[3]>>)
                w5 == [w4 EXCEPT !.people[trip.person + 1].state = StateOffMap]
            IN person_finished_trip(w5, t_now, trip.person)

car_or_bike_reached_border(w, t_now, car, i, blocked_time) ==
  IF ~Bound(w, Car(car)) THEN {Panic(w, "car_or_bike_reached_border: unwrap on None")}
  ELSE
    LET id == w.active_trip_mode[Car(car)]
        trip == TripAt(w, id)
        person == trip.person
        legs == trip.legs
        w1 == AddBlocked(Unbind(w, Car(car)), id, blocked_time)
        w2 == PopLeg(w1, id)
    IN IF Len(legs) = 0 THEN {Panic(w1, "car_or_bike_reached_border: pop_front().unwrap()")}
       ELSE IF ~(legs[1].leg = "Drive" /\ legs[1].goal[1] = "Border")
         THEN {Panic(w2, "car_or_bike_reached_border: unreachable!()")}
       ELSE IF legs[1].car # car \/ legs[1].goal[2] # i
         THEN {Panic(w2, "car_or_bike_reached_border: assert_eq!")}
       ELSE IF Len(legs) # 1
         THEN {Panic(w2, "car_or_bike_reached_border: assert!(trip.legs.is_empty())")}
       ELSE IF trip.finished_at # NoTime
         THEN {Panic(w2, "car_or_bike_reached_border: assert!(!finished_at.is_some())")}
       ELSE LET w3 == FinishTrip(w2, t_now, id)
                w4 == [w3 EXCEPT !.people[person + 1].state = StateOffMap]
                w5 == IF trip.end[1] = "Border"
                        THEN Emit(w4, <<"PersonLeavesMap", person, Car(car), i, trip.end[3]>>)
                        ELSE w4
            IN person_finished_trip(w5, t_now, person)

(***************************************************************************)
(* TripManager::trip_to_agent: a TripResult, or the panic of the lookup.   *)
(***************************************************************************)
\* A lookup that does not ask whether the trip was started.
trip_to_agent_of_any_trip(w, id) ==
  IF id >= Len(w.trips) THEN <<"TripDoesntExist">>
  ELSE IF TripAt(w, id).finished_at # NoTime THEN <<"TripDone">>
  ELSE IF TripAt(w, id).cancellation_reason # NoReason THEN <<"TripCancelled">>
  ELSE IF Len(TripAt(w, id).legs) = 0
    THEN <<"panic", "trip_to_agent: legs[0] of an empty queue">>
  ELSE
    LET trip == TripAt(w, id)
        person == PersonAt(w, trip.person)
        head == trip.legs[1]
        a == CASE head.leg = "Walk" -> Pedestrian(person.ped)
               [] head.leg = "Drive" -> Car(head.car)
               [] OTHER -> BusPassenger(person.id, person.on_bus)
    IN IF head.leg = "Remote" THEN <<"RemoteTrip">>
       ELSE IF head.leg = "RideBus" /\ person.on_bus = NoCar
         THEN <<"panic", "trip_to_agent: on_bus.unwrap()">>
       ELSE IF a \in DOMAIN w.active_trip_mode /\ w.active_trip_mode[a] = id
         THEN <<"Ok", a>>
       ELSE <<"ModeChange">>
\* The early returns, then the agent of the head leg looked up in
\* active_trip_mode.
trip_to_agent(w, id) ==
  IF id >= Len(w.trips) THEN <<"TripDoesntExist">>
  ELSE IF TripAt(w, id).finished_at # NoTime THEN <<"TripDone">>
  ELSE IF TripAt(w, id).cancellation_reason # NoReason THEN <<"TripCancelled">>
  ELSE IF ~TripAt(w, id).started THEN <<"TripNotStarted">>
  ELSE IF Len(TripAt(w, id).legs) = 0
    THEN <<"panic", "trip_to_agent: legs[0] of an empty queue">>
  ELSE
    LET trip == TripAt(w, id)
        person == PersonAt(w, trip.person)
        head == trip.legs[1]
        a == CASE head.leg = "Walk" -> Pedestrian(person.ped)
               [] head.leg = "Drive" -> Car(head.car)
               [] OTHER -> BusPassenger(person.id, person.on_bus)
    IN IF head.leg = "Remote" THEN <<"RemoteTrip">>
       ELSE IF head.leg = "RideBus" /\ person.on_bus = NoCar
         THEN <<"panic", "trip_to_agent: on_bus.unwrap()">>
       ELSE IF a \in DOMAIN w.active_trip_mode /\ w.active_trip_mode[a] = id
         THEN <<"Ok", a>>
       ELSE <<"ModeChange">>

remote_trip_finished(w, t_now, id) ==
  LET trip == TripAt(w, id)
      person == trip.person
      legs == trip.legs
      w2 == PopLeg(w, id)
  IN IF ~(Len(legs) > 0 /\ legs[1].leg = "Remote")
       THEN {Panic(w2, "remote_trip_finished: unreachable!()")}
     ELSE IF Len(legs) # 1
       THEN {Panic(w2, "remote_trip_finished: assert!(trip.legs.is_empty())")}
     ELSE IF trip.finished_at # NoTime
       THEN {Panic(w2, "remote_trip_finished: assert!(!finished_at.is_some())")}
     ELSE LET w3 == FinishTrip(w2, t_now, id)
              w4 == Emit(w3, <<"PersonEntersRemoteBuilding", person, legs[1].to>>)
              w5 == [w4 EXCEPT !.people[person + 1].state = StateOffMap]
          IN person_finished_trip(w5, t_now, person)

(***************************************************************************)
(* The callers: the scenario loader (new_person, new_trip and the          *)
(* StartTrip command it schedules), the scheduler that runs one command at *)
(* a time in time order, and the walking, driving and transit simulators   *)
(* that report what their agents reached.  sims holds, for every agent     *)
(* the simulators move, where it is heading.                               *)
(***************************************************************************)
VehicleSpecChoices == {<<>>, <<"Car", "Bike">>}

\* Where seed_parked_car may leave a new person's car: at a free spot, or
\* nowhere (the car is off the map).
SeedChoices(w) == FreeSpotAnswers(w)

POIOfEndpoint(e) == IF e[1] = "Bldg" THEN POIBuilding(e[2]) ELSE POIBorder(e[2], e[3])
GoalOfEndpoint(e) == IF e[1] = "Bldg" THEN ParkNear(e[2]) ELSE GoalBorder(e[2], e[3])
\* The final walk after parking near a building.
LastWalk(e) == IF e[1] = "Bldg" THEN <<Walk(POIBuilding(e[2]))>> ELSE <<>>

Endpoints == {Bldg(b) : b \in Buildings} \cup {Border(BorderI, NoLoc)}

\* Where a person's next trip starts: where the last one ends; a person
\* with no trip yet lives in building 1 or off the map.
NextStarts(w, person) ==
  LET p == PersonAt(w, person) IN
  IF Len(p.trips) = 0 THEN {Bldg(1), Border(BorderI, NoLoc)}
  ELSE {TripAt(w, p.trips[Len(p.trips)]).end}

\* Where the scenario's trips lead: from the border into building 1, from
\* a building to the other one or to the border.
Destinations(start) ==
  IF start[1] = "Border" THEN {Bldg(1)} ELSE Endpoints \ {start}

Plan(mode, start, legs, spec, has_req) ==
  [mode |-> mode, start |-> start, legs |-> legs, spec |-> spec, has_req |-> has_req]

\* The legs the loader builds for each TripSpec variant, from start to to.
PlansFromTo(p, start, to) ==
  LET cars == {p.vehicles[k].id : k \in 1..Len(p.vehicles)}
      from == POIOfEndpoint(start)
  IN
  {Plan("Walk", start, <<Walk(POIOfEndpoint(to))>>,
        MkSpec("JustWalking", NoCar, from, POIOfEndpoint(to), FALSE, NoStop, 0), TRUE)}
  \cup
  {Plan("Transit", start, <<Walk(POIBusStop(1)), RideBus(RouteR, 2), Walk(POIOfEndpoint(to))>>,
        MkSpec("UsingTransit", NoCar, from, POIOfEndpoint(to), FALSE, 1, 0), TRUE)}
  \cup
  {Plan("Transit", start, <<Walk(POIBusStop(1)), RideBus(RouteR, NoStop)>>,
        MkSpec("UsingTransit", NoCar, from, POIBorder(BorderI, NoLoc), FALSE, 1, 0), TRUE)
   : x \in IF to[1] = "Border" THEN {0} ELSE {}}
  \cup
  {Plan(IF c[2] = "Bike" THEN "Bike" ELSE "Drive", start,
        <<Drive(c, GoalOfEndpoint(to))>> \o LastWalk(to),
        MkSpec("VehicleAppearing", c, from, GoalOfEndpoint(to), FALSE, NoStop, 0), TRUE)
   : c \in IF start[1] = "Border" THEN cars ELSE {}}
  \cup
  {Plan("Drive", start, <<Drive(c, GoalOfEndpoint(to))>> \o LastWalk(to),
        MkSpec("NoRoomToSpawn", c, from, GoalOfEndpoint(to), FALSE, NoStop, 0), FALSE)
   : c \in IF start[1] = "Border" THEN {c \in cars : c[2] = "Car"} ELSE {}}
  \cup
  {Plan("Drive", start,
        <<Walk(POIDeferredParkingSpot), Drive(c, GoalOfEndpoint(to))>> \o LastWalk(to),
        MkSpec("UsingParkedCar", c, from, GoalOfEndpoint(to), FALSE, NoStop, 0), FALSE)
   : c \in IF start[1] = "Bldg" THEN {c \in cars : c[2] = "Car"} ELSE {}}
  \cup
  {Plan("Bike", start,
        <<Walk(POIBikeRack(start[2])), Drive(c, GoalOfEndpoint(to))>> \o LastWalk(to),
        MkSpec("UsingBike", c, from, GoalOfEndpoint(to), FALSE, NoStop, 0), TRUE)
   : c \in IF start[1] = "Bldg" THEN {c \in cars : c[2] = "Bike"} ELSE {}}

\* An off-map trip that takes RemoteTripTime.
RemoteTripTime == 1
RemotePlans(start) ==
  {Plan("Drive", start, <<Remote(1)>>,
        MkSpec("Remote", NoCar, POIBorder(start[2], 1), ParkNear(0), FALSE, NoStop,
               RemoteTripTime), FALSE)
   : x \in IF start[1] = "Border" THEN {0} ELSE {}}

Plans(w, person) ==
  UNION {UNION {PlansFromTo(PersonAt(w, person), start, to) : to \in Destinations(start)}
         \cup RemotePlans(start)
         : start \in NextStarts(w, person)}

\* What the event stream so far says of a person: of the events
\* PersonEntersBuilding and PersonLeavesBuilding about the person, the one
\* that came last ("none" if there was none).  StreamAfter is what it says
\* once the events evs have followed.
StreamOf(p) == IF p + 1 <= Len(stream) THEN stream[p + 1] ELSE "none"
StreamAfter(p, evs) ==
  LET ks == {k \in 1..Len(evs) :
               evs[k][1] \in {"PersonEntersBuilding", "PersonLeavesBuilding"} /\ evs[k][2] = p}
      k == CHOOSE x \in ks : \A y \in ks : y <= x
  IN IF ks = {} THEN StreamOf(p)
     ELSE IF evs[k][1] = "PersonEntersBuilding" THEN "entered" ELSE "left"

\* What a step leaves: the world the call ended in, or the abort (the
\* state the call began in, the panic, and the call that panicked).
Apply(w, newsims, op) ==
  IF w.panic # ""
    THEN /\ panicked' = w.panic
         /\ last' = op
         /\ UNCHANGED <<trips, people, active_trip_mode, unfinished_trips,
                        pathfinding_upfront, car_id_counter, events, scheduler,
                        parking, now, sims, stream, blocked_passed>>
    ELSE /\ last' = op
         /\ trips' = w.trips
         /\ people' = w.people
         /\ active_trip_mode' = w.active_trip_mode
         /\ unfinished_trips' = w.unfinished_trips
         /\ pathfinding_upfront' = w.pathfinding_upfront
         /\ car_id_counter' = w.car_id_counter
         /\ events' = w.events
         /\ scheduler' = w.scheduler
         /\ parking' = w.parking
         /\ sims' = newsims
         /\ stream' = [k \in 1..Len(w.people) |-> StreamAfter(k - 1, w.events)]
         /\ blocked_passed' = blocked_passed + op.blocked
         /\ UNCHANGED <<now, panicked>>

\* The call of a step: the operation, the trip it is about and the
\* blocked_time it was given (0 for the calls that take none).
OpBlocked(name, trip, blocked) == [op |-> name, trip |-> trip, blocked |-> blocked]
Op(name, trip) == OpBlocked(name, trip, 0)

Init ==
  /\ trips = <<>>
  /\ people = <<>>
  /\ active_trip_mode = EmptyMap
  /\ unfinished_trips = 0
  /\ pathfinding_upfront \in BOOLEAN
  /\ car_id_counter = 0
  /\ events = <<>>
  /\ scheduler = {}
  /\ parking = EmptyMap
  /\ now = 0
  /\ sims = EmptyMap
  /\ panicked = ""
  /\ last = Op("new", -1)
  /\ stream = <<>>
  /\ blocked_passed = 0

Running == panicked = ""

\* Commands that are due: the scheduler runs them before time moves on.
Due == {c \in scheduler : c.time <= now}
Without(w, c) == [w EXCEPT !.scheduler = @ \ {c}]

NewPerson ==
  /\ Running
  /\ Len(people) < MaxPeople
  /\ \E specs \in VehicleSpecChoices :
       LET w == new_person(World, Len(people), specs)
           cars == {k \in 1..Len(specs) : specs[k] = "Car"}
       IN \E spot \in SeedChoices(w) :
            LET seeded == IF spot[1] = "None" \/ cars = {} THEN w
                          ELSE [w EXCEPT !.parking =
                                  MapInsert(@, <<car_id_counter, "Car">>, [spot |-> spot])]
            IN /\ (cars = {} => spot[1] = "None")
               /\ Apply(seeded, sims, Op("new_person", -1))

\* The loader's new_trip and the StartTrip command it pushes for the
\* departure time.
ScheduleTrip(person, departure, plan) ==
  LET w == new_trip(World, person, departure, plan.start, plan.mode, plan.legs)
      cmd == StartTrip(departure, Len(trips), person, plan.spec, plan.has_req)
  IN Apply(IF w.panic # "" THEN w ELSE Push(w, cmd), sims, Op("new_trip", Len(trips)))

NewTrip ==
  /\ Running
  /\ Len(trips) < MaxTrips
  /\ \E person \in 0..(Len(people) - 1), departure \in now..MaxTime :
       \E plan \in Plans(World, person) : ScheduleTrip(person, departure, plan)

Tick ==
  /\ Running
  /\ now < MaxTime
  /\ Due = {}
  /\ now' = now + 1
  /\ events' = <<>>
  /\ last' = Op("tick", -1)
  /\ UNCHANGED <<trips, people, active_trip_mode, unfinished_trips, pathfinding_upfront,
                 car_id_counter, scheduler, parking, sims, panicked, stream,
                 blocked_passed>>

\* The scenario loader cancels a trip instead of starting it.
CancelUnstartedTrip ==
  /\ Running
  /\ \E c \in scheduler :
       /\ c.cmd = "StartTrip"
       /\ Apply(cancel_unstarted_trip(Without(World, c), c.trip, "cancelled by the scenario"),
                sims, Op("cancel_unstarted_trip", c.trip))

\* The path the loader hands over: found up front, or left to start_trip.
GivenPaths(c) == IF pathfinding_upfront /\ c.maybe_req THEN BOOLEAN ELSE {FALSE}

ExecStartTrip ==
  /\ Running
  /\ \E c \in Due :
       /\ c.cmd = "StartTrip"
       /\ \E path \in GivenPaths(c) :
            \E w \in start_trip(Without(World, c), now, c.trip, c.spec, c.maybe_req, path) :
              Apply(w, sims, Op("start_trip", c.trip))

Heading(goal, waiting) == [goal |-> goal, waiting |-> waiting]

\* The walking simulator says PersonLeavesBuilding when it spawns a
\* pedestrian that starts inside a building: the pedestrian of the first
\* leg of a trip that starts at a building (a later walk of a trip is its
\* last leg, and follows a drive or a ride).
LeavingBuilding(w, c) ==
  LET trip == TripAt(w, c.trip) IN
  IF trip.start[1] = "Bldg" /\ (trip.mode = "Walk" \/ Len(trip.legs) > 1)
    THEN Emit(w, <<"PersonLeavesBuilding", c.person, trip.start[2]>>)
    ELSE w

ExecSpawnPed ==
  /\ Running
  /\ \E c \in Due :
       /\ c.cmd = "SpawnPed"
       /\ LET ped == Pedestrian(people[c.person + 1].ped)
              w == agent_starting_trip_leg(Without(World, c), ped, c.trip)
          IN Apply(IF w.panic # "" THEN w ELSE LeavingBuilding(w, c),
                   MapInsert(sims, ped, Heading(c.goal, FALSE)), Op("spawn_ped", c.trip))

ExecSpawnCar ==
  /\ Running
  /\ \E c \in Due :
       /\ c.cmd = "SpawnCar"
       /\ LET w == agent_starting_trip_leg(Without(World, c), Car(c.car), c.trip)
              unparked == IF c.parked THEN [w EXCEPT !.parking = MapRemove(@, c.car)] ELSE w
          IN Apply(unparked, MapInsert(sims, Car(c.car), Heading(c.goal, FALSE)),
                   Op("spawn_car", c.trip))

ExecFinishRemoteTrip ==
  /\ Running
  /\ \E c \in Due :
       /\ c.cmd = "FinishRemoteTrip"
       /\ \E w \in remote_trip_finished(Without(World, c), now, c.trip) :
            Apply(w, sims, Op("remote_trip_finished", c.trip))

BlockedTimes == 0..MaxBlocked
Walkers(kind) ==
  {a \in DOMAIN sims : a[1] = "Pedestrian" /\ ~sims[a].waiting /\ sims[a].goal[1] = kind}
Drivers(type, kind) ==
  {a \in DOMAIN sims : a[1] = "Car" /\ a[3][2] = type /\ sims[a].goal[1] = kind}
Riders == {a \in DOMAIN sims : a[1] = "BusPassenger"}
TripOf(a) == IF a \in DOMAIN active_trip_mode THEN active_trip_mode[a] ELSE -1

PedReachedBuilding ==
  /\ Running
  /\ \E a \in Walkers("Building"), blocked \in BlockedTimes :
       \E w \in ped_reached_building(World, now, a[2], sims[a].goal[2], blocked) :
         Apply(w, MapRemove(sims, a), OpBlocked("ped_reached_building", TripOf(a), blocked))

PedReachedBorder ==
  /\ Running
  /\ \E a \in Walkers("Border"), blocked \in BlockedTimes :
       \E w \in ped_reached_border(World, now, a[2], sims[a].goal[2], blocked) :
         Apply(w, MapRemove(sims, a), OpBlocked("ped_reached_border", TripOf(a), blocked))

PedReachedParkingSpot ==
  /\ Running
  /\ \E a \in Walkers("ParkingSpot"), blocked \in BlockedTimes :
       \E w \in ped_reached_parking_spot(World, now, a[2], sims[a].goal[2], blocked) :
         Apply(w, MapRemove(sims, a), OpBlocked("ped_reached_parking_spot", TripOf(a), blocked))

PedReadyToBike ==
  /\ Running
  /\ \E a \in Walkers("BikeRack"), blocked \in BlockedTimes :
       \E w \in ped_ready_to_bike(World, now, a[2], sims[a].goal, blocked) :
         Apply(w, MapRemove(sims, a), OpBlocked("ped_ready_to_bike", TripOf(a), blocked))

\* The stop the transit simulator will let the rider off at: the
\* maybe_stop2 that ped_reached_bus_stop passed to ped_waiting_for_bus.
RideTo(a) ==
  LET legs == trips[TripOf(a) + 1].legs IN
  IF TripOf(a) >= 0 /\ Len(legs) >= 2 /\ legs[2].leg = "RideBus"
    THEN <<"Stop", legs[2].stop2, NoLoc>> ELSE <<"Stop", NoStop, NoLoc>>

PedReachedBusStop ==
  /\ Running
  /\ \E a \in Walkers("BusStop"), blocked \in BlockedTimes, maybe_bus \in {NoCar, BusX} :
       LET w == ped_reached_bus_stop(World, now, a[2], sims[a].goal[2], blocked, maybe_bus)
           person == trips[TripOf(a) + 1].person
       IN Apply(w,
                IF maybe_bus = NoCar
                  THEN MapInsert(sims, a, [goal |-> RideTo(a), waiting |-> TRUE])
                  ELSE MapInsert(MapRemove(sims, a), BusPassenger(person, maybe_bus),
                                 Heading(RideTo(a), FALSE)),
                OpBlocked("ped_reached_bus_stop", TripOf(a), blocked))

PedBoardedBus ==
  /\ Running
  /\ \E a \in {x \in DOMAIN sims : x[1] = "Pedestrian" /\ sims[x].waiting},
        blocked \in BlockedTimes :
       LET w == ped_boarded_bus(World, now, a[2], BusX, blocked)
           person == trips[TripOf(a) + 1].person
       IN Apply(w, MapInsert(MapRemove(sims, a), BusPassenger(person, BusX),
                             Heading(sims[a].goal, FALSE)),
                OpBlocked("ped_boarded_bus", TripOf(a), blocked))

PersonLeftBus ==
  /\ Running
  /\ \E a \in {x \in Riders : sims[x].goal[2] # NoStop} :
       \E w \in person_left_bus(World, now, a[2], a[3]) :
         Apply(w, MapRemove(sims, a), Op("person_left_bus", TripOf(a)))

TransitRiderReachedBorder ==
  /\ Running
  /\ \E a \in {x \in Riders : sims[x].goal[2] = NoStop} :
       \E w \in transit_rider_reached_border(World, now, a[2], a[3]) :
         Apply(w, MapRemove(sims, a), Op("transit_rider_reached_border", TripOf(a)))

\* The driving simulator parks the car at a free spot it found, then
\* reports it.
CarReachedParkingSpot ==
  /\ Running
  /\ \E a \in Drivers("Car", "ParkNear"), blocked \in BlockedTimes :
       \E spot \in FreeSpotAnswers(World) \ {<<"None", 0>>} :
         LET parkedw == [World EXCEPT !.parking =
                           MapInsert(@, a[3], [spot |-> spot])]
         IN \E w \in car_reached_parking_spot(parkedw, now, a[3], spot, blocked) :
              Apply(w, MapRemove(sims, a), OpBlocked("car_reached_parking_spot", TripOf(a), blocked))

\* "If the trip was cancelled because we're totally out of parking": the
\* driving simulator gives up on a car that finds no spot.
CancelTripOutOfParking ==
  /\ Running
  /\ \E a \in Drivers("Car", "ParkNear") :
       /\ TripOf(a) >= 0
       /\ \E w \in cancel_trip(World, now, TripOf(a), "no available parking", NoVehicle) :
            Apply(w, MapRemove(sims, a), Op("cancel_trip", TripOf(a)))

BikeReachedEnd ==
  /\ Running
  /\ \E a \in Drivers("Bike", "ParkNear"), blocked \in BlockedTimes :
       \E w \in bike_reached_end(World, now, a[3], POIBikeRack(sims[a].goal[2]), blocked) :
         Apply(w, MapRemove(sims, a), OpBlocked("bike_reached_end", TripOf(a), blocked))

CarOrBikeReachedBorder ==
  /\ Running
  /\ \E a \in {x \in DOMAIN sims : x[1] = "Car" /\ sims[x].goal[1] = "Border"},
        blocked \in BlockedTimes :
       \E w \in car_or_bike_reached_border(World, now, a[3], sims[a].goal[2], blocked) :
         Apply(w, MapRemove(sims, a), OpBlocked("car_or_bike_reached_border", TripOf(a), blocked))

Next ==
  \/ NewPerson
  \/ NewTrip
  \/ CancelUnstartedTrip
  \/ Tick
  \/ ExecStartTrip
  \/ ExecSpawnPed
  \/ ExecSpawnCar
  \/ ExecFinishRemoteTrip
  \/ PedReachedBuilding
  \/ PedReachedBorder
  \/ PedReachedParkingSpot
  \/ PedReadyToBike
  \/ PedReachedBusStop
  \/ PedBoardedBus
  \/ PersonLeftBus
  \/ TransitRiderReachedBorder
  \/ CarReachedParkingSpot
  \/ CancelTripOutOfParking
  \/ BikeReachedEnd
  \/ CarOrBikeReachedBorder

Spec == Init /\ [][Next]_vars

(***************************************************************************)
(* A scenario of walks, off-map trips and cars that find no room at the    *)
(* border, long enough for several trips of a person to wait in            *)
(* delayed_trips at once.                                                  *)
(***************************************************************************)
QueuePlans(w, person) ==
  {plan \in Plans(w, person) : plan.spec.kind \in {"JustWalking", "NoRoomToSpawn", "Remote"}}

NewQueuedTrip ==
  /\ Running
  /\ Len(trips) < MaxQueued
  /\ \E person \in 0..(Len(people) - 1), departure \in now..MaxTime :
       \E plan \in QueuePlans(World, person) : ScheduleTrip(person, departure, plan)

QueueNext ==
  \/ NewPerson
  \/ NewQueuedTrip
  \/ CancelUnstartedTrip
  \/ Tick
  \/ ExecStartTrip
  \/ ExecSpawnPed
  \/ ExecFinishRemoteTrip
  \/ PedReachedBuilding
  \/ PedReachedBorder

QueueSpec == Init /\ [][QueueNext]_vars

(***************************************************************************)
(* A scenario of walks and bus rides with a simulator that has a bug: it   *)
(* may call agent_starting_trip_leg for an agent at any time, and it may   *)
(* report a completion to any handler for any agent, whether the registry  *)
(* holds the agent or not.                                                 *)
(***************************************************************************)
TransitPlans(w, person) ==
  {plan \in Plans(w, person) : plan.spec.kind \in {"JustWalking", "UsingTransit"}}

NewTransitTrip ==
  /\ Running
  /\ Len(trips) < MaxMisrouted
  /\ \E person \in 0..(Len(people) - 1), departure \in now..MaxTime :
       \E plan \in TransitPlans(World, person) : ScheduleTrip(person, departure, plan)

\* The agents a person can be: on foot, or a passenger of the bus.
StrayAgents ==
  UNION {{Pedestrian(people[p + 1].ped), BusPassenger(p, BusX)} : p \in 0..(Len(people) - 1)}

StrayAgentStarting ==
  /\ Running
  /\ \E agent \in StrayAgents, t \in 0..(Len(trips) - 1) :
       Apply(agent_starting_trip_leg(World, agent, t), sims,
             Op("agent_starting_trip_leg", t))

\* The handlers a completion of the agent can be reported to, and the call
\* each one is.
HandlersOf(a) ==
  IF a[1] = "Pedestrian"
    THEN {"ped_reached_building", "ped_reached_border", "ped_reached_bus_stop",
          "ped_boarded_bus"}
    ELSE {"person_left_bus", "transit_rider_reached_border"}
MisroutedCall(h, a) ==
  CASE h = "ped_reached_building" ->
         UNION {ped_reached_building(World, now, a[2], b, 0) : b \in Buildings}
    [] h = "ped_reached_border" -> ped_reached_border(World, now, a[2], BorderI, 0)
    [] h = "ped_reached_bus_stop" -> {ped_reached_bus_stop(World, now, a[2], 1, 0, BusX)}
    [] h = "ped_boarded_bus" -> {ped_boarded_bus(World, now, a[2], BusX, 0)}
    [] h = "person_left_bus" -> person_left_bus(World, now, a[2], a[3])
    [] h = "transit_rider_reached_border" ->
         transit_rider_reached_border(World, now, a[2], a[3])

MisroutedCompletion ==
  /\ Running
  /\ \E a \in StrayAgents :
       \E h \in HandlersOf(a) :
         \E w \in MisroutedCall(h, a) :
           Apply(w, MapRemove(sims, a), Op(h, TripOf(a)))

MisroutedNext ==
  \/ NewPerson
  \/ NewTransitTrip
  \/ Tick
  \/ ExecStartTrip
  \/ ExecSpawnPed
  \/ PedReachedBuilding
  \/ PedReachedBorder
  \/ PedReachedBusStop
  \/ PedBoardedBus
  \/ PersonLeftBus
  \/ TransitRiderReachedBorder
  \/ StrayAgentStarting
  \/ MisroutedCompletion

MisroutedSpec == Init /\ [][MisroutedNext]_vars

(***************************************************************************)
(* A scenario loader that hands new_trip any list of up to two legs.       *)
(***************************************************************************)
LegLists ==
  LET car == <<0, "Car">>
      walks == {Walk(spot) :
                  spot \in {POIBuilding(b) : b \in Buildings}
                           \cup {POIBorder(BorderI, loc) : loc \in {NoLoc, 1}}
                           \cup {POIBusStop(1), POIBikeRack(1), POIDeferredParkingSpot,
                                 POISuddenlyAppear, POIParkingSpot(Onstreet)}}
      drives == {Drive(car, ParkNear(b)) : b \in Buildings}
                \cup {Drive(car, GoalBorder(BorderI, loc)) : loc \in {NoLoc, 1}}
      legs == walks \cup drives \cup {RideBus(RouteR, NoStop), RideBus(RouteR, 2), Remote(1)}
  IN {<<>>} \cup {<<l>> : l \in legs} \cup {<<k, l>> : k, l \in legs}

NewAnyTrip ==
  /\ Running
  /\ Len(trips) < MaxLoaded
  /\ \E person \in 0..(Len(people) - 1), legs \in LegLists :
       \E start \in NextStarts(World, person) :
         ScheduleTrip(person, now, Plan("Walk", start, legs, NoSpec, FALSE))

LoaderNext ==
  \/ NewPerson
  \/ NewAnyTrip

LoaderSpec == Init /\ [][LoaderNext]_vars

(***************************************************************************)
(* What the properties speak of.                                           *)
(***************************************************************************)
TripIds == 0..(Len(trips) - 1)
PersonIds == 0..(Len(people) - 1)
Finished(t) == trips[t + 1].finished_at # NoTime
Cancelled(t) == trips[t + 1].cancellation_reason # NoReason
Started(t) == trips[t + 1].started
\* A trip that is under way: started, and neither finished nor cancelled.
Underway(t) == Started(t) /\ ~Finished(t) /\ ~Cancelled(t)
\* The agents of active_trip_mode that are bound to trip t.
AgentsOf(t) == {a \in DOMAIN active_trip_mode : active_trip_mode[a] = t}
\* Where cancel_trip warps the person of trip t.
WarpedState(t) ==
  IF trips[t + 1].end[1] = "Bldg" THEN StateInside(trips[t + 1].end[2]) ELSE StateOffMap
Emitted(e) == \E k \in 1..Len(events) : events[k] = e
\* The state of the person of trip t.
StateOf(t) == people[trips[t + 1].person + 1].state
\* Trip::spawn_ped found no path in the step just taken.
SpawnFailed(person) == Emitted(<<"Alert", person, "no path for the walking portion">>)

\* C1: after every operation, unfinished_trips equals the number of trips
\* that have neither finished_at nor cancellation_reason set, also where a
\* handler could not spawn the next walking leg.
C1_CounterMatchesOpenTrips ==
  unfinished_trips = Cardinality({t \in TripIds : ~Finished(t) /\ ~Cancelled(t)})

\* C2: whenever a handler hits a simulation failure (a cancellation, or the
\* walking leg that spawn_ped finds no path for), the failed trip has a
\* cancellation_reason, TripCancelled was emitted for it, and its person is
\* warped to the trip's end (unless the drain already started a later trip
\* of the person), never left in Trip(t) for the failed trip t.  (cancel_unstarted_trip is the scenario
\* loader's call, not a failure of the simulation.)
FailedTrips ==
  {t \in TripIds :
     /\ Running
     /\ \/ last.op # "cancel_unstarted_trip" /\ Emitted(<<"TripCancelled", t>>)
        \/ last.trip = t /\ SpawnFailed(trips[t + 1].person)}
C2_FailureCancelsAndWarps ==
  \A t \in FailedTrips :
    LET st == people[trips[t + 1].person + 1].state IN
    /\ Cancelled(t)
    /\ Emitted(<<"TripCancelled", t>>)
    /\ st # StateTrip(t)
    /\ (\E u \in TripIds : u > t /\ trips[u + 1].person = trips[t + 1].person /\ Started(u))
         \/ st = WarpedState(t)

\* C3: a person performs trips strictly serially: at most one trip of a
\* person is started and neither finished nor cancelled.
C3_TripsAreSerial ==
  \A p \in PersonIds :
    Cardinality({t \in TripIds : trips[t + 1].person = p /\ Underway(t)}) <= 1
\* start_trip was called for a later trip while an earlier one was under
\* way: the later one waits in delayed_trips.
C3_Witness ==
  \E p \in PersonIds :
    /\ Len(people[p + 1].delayed_trips) > 0
    /\ \E t \in TripIds : trips[t + 1].person = p /\ Underway(t)

\* C4: start_trip for a trip whose person is in Trip(_) only defers: the
\* entry (trip, spec, req, path) is appended to the end of delayed_trips,
\* TripPhaseStarting with DelayedStart is emitted, started stays false, the
\* person's state and everything else stay as they were, and the scheduler
\* gets no command.
Deferred(c, path) ==
  [trip |-> c.trip, spec |-> c.spec, maybe_req |-> c.maybe_req, maybe_path |-> path]
C4_StartWhileBusyOnlyDefers ==
  [][\A c \in scheduler :
       (c.cmd = "StartTrip" /\ last' = Op("start_trip", c.trip)
        /\ InTrip(people[c.person + 1].state))
       => /\ panicked' = ""
          /\ \E path \in BOOLEAN :
               people' = [people EXCEPT ![c.person + 1].delayed_trips =
                                          Append(@, Deferred(c, path))]
          /\ events' = <<<<"TripPhaseStarting", c.trip, c.person, "DelayedStart">>>>
          /\ ~trips'[c.trip + 1].started
          /\ trips' = trips
          /\ scheduler' = scheduler \ {c}
          /\ UNCHANGED <<active_trip_mode, unfinished_trips, parking>>]_vars
\* A trip deferred by the call just made.
C4_Witness ==
  /\ Running
  /\ last.op = "start_trip"
  /\ ~Started(last.trip)
  /\ \E p \in PersonIds :
       LET d == people[p + 1].delayed_trips IN
       Len(d) > 0 /\ d[Len(d)].trip = last.trip /\ InTrip(people[p + 1].state)

\* C5: every deferred trip eventually starts.  Only a command of the
\* scheduler or an agent of the simulators can end the person's running
\* trip and drain the queue, so as long as a trip waits in delayed_trips
\* its person must still own one of them; otherwise the trip waits for ever.
OwnsAgent(p, a) ==
  \/ a[1] = "Pedestrian" /\ a[2] = people[p + 1].ped
  \/ a[1] = "Car" /\ HasVehicle(people[p + 1], a[3])
  \/ a[1] = "BusPassenger" /\ a[2] = p
CanStillFinish(p) ==
  \/ \E c \in scheduler : c.person = p /\ c.cmd # "StartTrip"
  \/ \E a \in DOMAIN sims : OwnsAgent(p, a)
C5_DeferredTripCanStillStart ==
  \A p \in PersonIds :
    (Running /\ Len(people[p + 1].delayed_trips) > 0) => CanStillFinish(p)

\* C6: delayed_trips is a FIFO.  A step leaves a person's queue as it was,
\* appends one entry, or removes entries at its front: each removed entry
\* was re-entered into start_trip with what it stored (the trip is started;
\* a stored path is used, so a walk that has one is not cancelled; the
\* command pushed is the one of the stored spec), and the drain stops at
\* the first entry that is dispatched: all entries removed before the last
\* were cancelled, and entries stay behind only if the last was dispatched.
CancelledAfter(t) == trips'[t + 1].cancellation_reason # NoReason
ExpectedCommands(d, person) ==
  CASE d.spec.kind = "JustWalking" -> {SpawnPed(now, d.spec.goal, d.trip, person)}
    [] d.spec.kind = "Remote" -> {FinishRemoteTrip(now + d.spec.trip_time, d.trip, person)}
    [] OTHER -> {c \in scheduler' : c.trip = d.trip}
Reentered(d, person) ==
  /\ trips'[d.trip + 1].started
  /\ (d.spec.kind = "JustWalking" /\ d.maybe_path) => ~CancelledAfter(d.trip)
  /\ ~CancelledAfter(d.trip) =>
       /\ people'[person + 1].state = StateTrip(d.trip)
       /\ ExpectedCommands(d, person) \cap scheduler' # {}
FIFOStep(person) ==
  LET d == people[person + 1].delayed_trips
      e == people'[person + 1].delayed_trips
      n == Len(d) - Len(e)
  IN \/ e = d
     \/ n = -1 /\ SubSeq(e, 1, Len(d)) = d
     \/ /\ n > 0
        /\ e = SubSeq(d, n + 1, Len(d))
        /\ \A k \in 1..n : Reentered(d[k], person) /\ (k < n => CancelledAfter(d[k].trip))
        /\ CancelledAfter(d[n].trip) => e = <<>>
C6_DelayedTripsAreFIFO == [][\A p \in PersonIds : FIFOStep(p)]_vars
\* The trip that just ended drained two entries: the first re-entered was
\* cancelled, the second is under way, and a third trip is still waiting
\* or none is.
C6_Witness ==
  /\ Running
  /\ last.op \in {"ped_reached_building", "ped_reached_border", "remote_trip_finished"}
  /\ \E u, v \in TripIds \ {last.trip} :
       /\ Emitted(<<"TripCancelled", u>>)
       /\ Started(u) /\ Cancelled(u)
       /\ Underway(v)
       /\ StateOf(v) = StateTrip(v)

\* C7: a person's state is Trip(t) if and only if t is started, not
\* finished, not cancelled and at least one agent of active_trip_mode is
\* bound to t.
C7_TripStateIffAgentBound ==
  \A t \in TripIds : (StateOf(t) = StateTrip(t)) <=> (Underway(t) /\ AgentsOf(t) # {})
\* C7, amended: a person's state is Trip(t) if and only if t is started,
\* not finished and not cancelled; an agent bound to t implies that state,
\* but the state also holds while no agent is bound.
C7_TripStateIffUnderway ==
  /\ \A t \in TripIds :
       /\ (StateOf(t) = StateTrip(t)) <=> Underway(t)
       /\ AgentsOf(t) # {} => StateOf(t) = StateTrip(t)
  /\ \A p \in PersonIds :
       InTrip(people[p + 1].state) =>
         /\ people[p + 1].state[2] \in TripIds
         /\ trips[people[p + 1].state[2] + 1].person = p
\* Between start_trip and the agent_starting_trip_leg of the command it
\* pushed: the person is in Trip(t) and no agent is bound to t.
C7_Witness ==
  \E t \in TripIds :
    /\ Running
    /\ last = Op("start_trip", t)
    /\ StateOf(t) = StateTrip(t)
    /\ AgentsOf(t) = {}

\* C8: a person's on_bus is Some(b) if and only if active_trip_mode holds
\* the agent BusPassenger(person, b).
C8_OnBusIffPassengerBound ==
  /\ \A p \in PersonIds :
       people[p + 1].on_bus # NoCar =>
         BusPassenger(p, people[p + 1].on_bus) \in DOMAIN active_trip_mode
  /\ \A a \in DOMAIN active_trip_mode :
       a[1] = "BusPassenger" => people[a[2] + 1].on_bus = a[3]

\* C9: a trip's legs is non-empty from creation on and is empty exactly
\* when finished_at is set.
C9_LegsEmptyIffFinished ==
  \A t \in TripIds : (Len(trips[t + 1].legs) = 0) <=> Finished(t)

\* C10: no trip has both finished_at and cancellation_reason set, and once
\* either is set no step clears or overwrites it.
C10_OutcomeIsFinal ==
  [][\A t \in TripIds :
       /\ ~(trips'[t + 1].finished_at # NoTime /\ trips'[t + 1].cancellation_reason # NoReason)
       /\ Finished(t) => trips'[t + 1].finished_at = trips[t + 1].finished_at
       /\ Cancelled(t) =>
            trips'[t + 1].cancellation_reason = trips[t + 1].cancellation_reason]_vars
\* One trip has finished and another was cancelled.
C10_Witness ==
  \E t, u \in TripIds : Finished(t) /\ ~Cancelled(t) /\ Cancelled(u) /\ ~Finished(u)

(***************************************************************************)
(* The registry of active agents.                                          *)
(***************************************************************************)
\* The head leg of the trip agent a is bound to matches a's kind.
HeadLegMatches(a) ==
  LET legs == trips[active_trip_mode[a] + 1].legs IN
  /\ Len(legs) > 0
  /\ a[1] = "Pedestrian" => legs[1].leg = "Walk"
  /\ a[1] = "Car" => legs[1].leg = "Drive" /\ legs[1].car = a[3]
  /\ a[1] = "BusPassenger" => legs[1].leg = "RideBus"

\* C11: for every agent bound in active_trip_mode, the head leg of the
\* bound trip matches the agent's kind: Pedestrian with Walk, Car(c) with
\* Drive(c, _), BusPassenger with RideBus; after every handler, also while a
\* pedestrian waits at a bus stop.
C11_HeadLegMatchesAgent ==
  \A a \in DOMAIN active_trip_mode :
    /\ active_trip_mode[a] \in TripIds
    /\ HeadLegMatches(a)
\* A pedestrian waits at a bus stop, still bound to the trip.
C11_Witness ==
  /\ Running
  /\ last.op = "ped_reached_bus_stop"
  /\ \E a \in DOMAIN active_trip_mode :
       a[1] = "Pedestrian" /\ a \in DOMAIN sims /\ sims[a].waiting

\* The call of this step inserts into active_trip_mode: a spawn command's
\* agent_starting_trip_leg, or a boarding (ped_boarded_bus, or
\* ped_reached_bus_stop with a bus at the stop, which pops the walk leg).
InsertingCall ==
  \/ last'.op \in {"spawn_ped", "spawn_car", "agent_starting_trip_leg", "ped_boarded_bus"}
  \/ /\ last'.op = "ped_reached_bus_stop"
     /\ last'.trip \in TripIds
     /\ Len(trips'[last'.trip + 1].legs) < Len(trips[last'.trip + 1].legs)
\* The call of this step is a completion reported for an agent that the
\* registry does not hold.
UnboundCompletion ==
  /\ last'.trip = -1
  /\ last'.op \in {"ped_reached_building", "ped_reached_border", "ped_reached_bus_stop",
                   "ped_boarded_bus", "person_left_bus", "transit_rider_reached_border"}

\* C12: the registry is bind-once.  A call that inserts into
\* active_trip_mode and does not panic binds an agent that was not bound
\* and leaves every other binding as it was (an insertion of a bound agent
\* panics, in agent_starting_trip_leg and in the rebinds of
\* ped_reached_bus_stop and ped_boarded_bus alike), and a completion for an
\* agent that is not bound panics.
C12_RegistryIsBindOnce ==
  [][/\ (InsertingCall /\ panicked' = "") =>
          /\ DOMAIN active_trip_mode' \ DOMAIN active_trip_mode # {}
          /\ \A a \in DOMAIN active_trip_mode \cap DOMAIN active_trip_mode' :
               active_trip_mode'[a] = active_trip_mode[a]
     /\ UnboundCompletion => panicked' # ""]_vars

\* The agents of active_trip_mode bound to a trip of person p.
AgentsOfPerson(p) ==
  {a \in DOMAIN active_trip_mode : trips[active_trip_mode[a] + 1].person = p}

\* C13: every step removes at most one binding (the completing agent's)
\* and adds at most one, and after it no trip and no person has more than
\* one agent bound in active_trip_mode.
C13_OneAgentPerTrip ==
  [][/\ Cardinality(DOMAIN active_trip_mode \ DOMAIN active_trip_mode') <= 1
     /\ Cardinality(DOMAIN active_trip_mode' \ DOMAIN active_trip_mode) <= 1
     /\ \A a \in DOMAIN active_trip_mode \cap DOMAIN active_trip_mode' :
          active_trip_mode'[a] = active_trip_mode[a]
     /\ \A t \in 0..(Len(trips') - 1) :
          Cardinality({a \in DOMAIN active_trip_mode' : active_trip_mode'[a] = t}) <= 1
     /\ \A p \in 0..(Len(people') - 1) :
          Cardinality({a \in DOMAIN active_trip_mode' :
                        trips'[active_trip_mode'[a] + 1].person = p}) <= 1]_vars
\* A leg transition that pairs an unbind with a bind: the pedestrian has
\* just boarded, and the passenger is the only agent of the trip.
C13_Witness ==
  /\ Running
  /\ last.op = "ped_boarded_bus"
  /\ last.trip \in TripIds
  /\ AgentsOf(last.trip) = {BusPassenger(trips[last.trip + 1].person, BusX)}
  /\ AgentsOfPerson(trips[last.trip + 1].person) = AgentsOf(last.trip)

(***************************************************************************)
(* new_trip and cancel_unstarted_trip.                                     *)
(***************************************************************************)
\* The departure of the last trip of person p; NoTime if p has no trip.
LastDeparture(p) ==
  LET ids == people[p + 1].trips IN
  IF Len(ids) = 0 THEN NoTime ELSE trips[ids[Len(ids)] + 1].departure

\* new_trip called now for person p with this departure, for a walk from
\* start to building 1: a departure before the last trip's panics and adds
\* no trip; any other is accepted, and the new trip is placed after the
\* trips the person has.
OrderedInsertion(p, departure, start) ==
  LET w == new_trip(World, p, departure, start, "Walk", <<Walk(POIBuilding(1))>>) IN
  IF departure < LastDeparture(p)
    THEN w.panic # "" /\ w.trips = trips /\ w.people[p + 1].trips = people[p + 1].trips
    ELSE /\ w.panic = ""
         /\ w.people[p + 1].trips = Append(people[p + 1].trips, Len(trips))
         /\ w.trips[Len(trips) + 1].departure = departure

\* C14: every person's trips list is sorted non-decreasing by departure (and
\* holds the trips in the order they were added); new_trip with a departure
\* strictly earlier than the person's last trip's panics and adds no trip,
\* and an equal departure is accepted and placed after it.
C14_TripsSortedByDeparture ==
  \A p \in PersonIds :
    LET ids == people[p + 1].trips IN
    /\ \A i, j \in 1..Len(ids) :
         i < j => /\ ids[i] < ids[j]
                  /\ trips[ids[i] + 1].departure <= trips[ids[j] + 1].departure
    /\ \A departure \in 0..MaxTime, start \in NextStarts(World, p) :
         OrderedInsertion(p, departure, start)
\* new_trip has just accepted a trip that departs when the person's
\* previous trip does.
C14_Witness ==
  /\ Running
  /\ last.op = "new_trip"
  /\ Len(trips) = last.trip + 1
  /\ \E p \in PersonIds :
       LET ids == people[p + 1].trips IN
       /\ Len(ids) >= 2
       /\ ids[Len(ids)] = last.trip
       /\ trips[ids[Len(ids) - 1] + 1].departure = trips[last.trip + 1].departure

\* Where a trip handed to new_trip may start: a building, the border, or
\* the border with an off-map location.
AnyStarts == {Bldg(b) : b \in Buildings} \cup {Border(BorderI, loc) : loc \in {NoLoc, 1}}

\* What new_trip, called now for person p (a walk from start to building
\* 1), leaves when it accepts the trip.
NewTripEffect(p, departure, start) ==
  LET w == new_trip(World, p, departure, start, "Walk", <<Walk(POIBuilding(1))>>)
      id == Len(trips)
      first == Len(people[p + 1].trips) = 0
  IN w.panic = "" =>
       /\ w.trips = Append(trips, w.trips[id + 1])
       /\ w.trips[id + 1].id = id
       /\ w.trips[id + 1].person = p
       /\ ~w.trips[id + 1].started
       /\ w.trips[id + 1].finished_at = NoTime
       /\ w.trips[id + 1].cancellation_reason = NoReason
       /\ w.unfinished_trips = unfinished_trips + 1
       /\ w.people = [people EXCEPT
                        ![p + 1].trips = Append(@, id),
                        ![p + 1].state =
                          IF ~first THEN @
                          ELSE IF start[1] = "Bldg" THEN StateInside(start[2])
                          ELSE StateOffMap]
       /\ w.events =
            IF ~first THEN <<>>
            ELSE IF start[1] = "Bldg" THEN <<<<"PersonEntersBuilding", p, start[2]>>>>
            ELSE IF start[3] # NoLoc THEN <<<<"PersonEntersRemoteBuilding", p, start[3]>>>>
            ELSE <<>>
       /\ w.active_trip_mode = active_trip_mode
       /\ w.scheduler = scheduler

\* C15: new_trip appends the new id (the previous number of trips) to the
\* person's trips, adds one to unfinished_trips and creates the trip not
\* started, not finished and not cancelled; only for the person's first
\* trip it sets the state (Inside(b) with PersonEntersBuilding, OffMap with
\* PersonEntersRemoteBuilding if an off-map location is given); for a later
\* trip the state stays and no event is emitted.
C15_NewTripEffect ==
  \A p \in PersonIds :
    \A start \in AnyStarts : NewTripEffect(p, MaxTime, start)
\* new_trip has just added a later trip of a person who is under way on
\* an earlier one: the state is still Trip(_) of the earlier trip.
C15_Witness ==
  /\ Running
  /\ last.op = "new_trip"
  /\ Len(trips) = last.trip + 1
  /\ ~Started(last.trip) /\ ~Finished(last.trip) /\ ~Cancelled(last.trip)
  /\ events = <<>>
  /\ \E t \in TripIds : t < last.trip /\ StateOf(last.trip) = StateTrip(t)

\* The endpoint the last leg l of a trip stands for.
ExpectedEnd(l) ==
  CASE l.leg = "Walk" /\ l.spot[1] = "Building" -> Bldg(l.spot[2])
    [] l.leg = "Walk" /\ l.spot[1] = "Border" -> Border(l.spot[2], l.spot[3])
    [] l.leg = "Drive" /\ l.goal[1] = "ParkNear" -> Bldg(l.goal[2])
    [] l.leg = "Drive" /\ l.goal[1] = "Border" -> Border(l.goal[2], l.goal[3])
    [] l.leg = "RideBus" /\ l.stop2 = NoStop -> Border(BorderI, NoLoc)
    [] l.leg = "Remote" -> Border(BorderI, l.to)
    [] OTHER -> <<"none", 0, NoLoc>>
\* The legs lists new_trip refuses: the empty one, and those whose last leg
\* stands for no endpoint.
Rejected(legs) ==
  Len(legs) = 0 \/ ExpectedEnd(legs[Len(legs)])[1] = "none"

\* C16: new_trip rejects an empty legs list and derives the trip's end from
\* the last leg only: Walk to a building or border, Drive to ParkNear(b) or
\* to a border, RideBus without a second stop (the route's end border),
\* Remote(to) (the border, with to as off-map location); a last leg RideBus
\* with a second stop or a Walk to any other place is rejected.
C16_EndFromLastLeg ==
  /\ \A t \in TripIds :
       trips[t + 1].end = ExpectedEnd(trips[t + 1].legs[Len(trips[t + 1].legs)])
  /\ \A p \in PersonIds, legs \in LegLists :
       LET w == new_trip(World, p, MaxTime, Bldg(1), "Walk", legs) IN
       IF Rejected(legs)
         THEN w.panic # "" /\ w.trips = trips
         ELSE w.panic = "" /\ w.trips[Len(trips) + 1].end = ExpectedEnd(legs[Len(legs)])
\* new_trip has just accepted a trip of two legs whose first leg alone
\* would have given another endpoint.
C16_Witness ==
  /\ Running
  /\ last.op = "new_trip"
  /\ Len(trips) = last.trip + 1
  /\ LET legs == trips[last.trip + 1].legs IN
     /\ Len(legs) = 2
     /\ ExpectedEnd(legs[1])[1] # "none"
     /\ ExpectedEnd(legs[1]) # trips[last.trip + 1].end

\* C17: cancel_unstarted_trip(id, reason) takes one from unfinished_trips,
\* sets the trip's cancellation_reason and emits TripCancelled(id), and
\* nothing else: every person (state, on_bus, delayed_trips), the trip's
\* legs and started flag, every other trip and active_trip_mode stay.
C17_CancelUnstartedFrame ==
  [][last'.op = "cancel_unstarted_trip" =>
       LET t == last'.trip IN
       /\ panicked' = ""
       /\ unfinished_trips' = unfinished_trips - 1
       /\ trips'[t + 1].cancellation_reason # NoReason
       /\ trips' = [trips EXCEPT ![t + 1].cancellation_reason =
                                    trips'[t + 1].cancellation_reason]
       /\ events' = <<<<"TripCancelled", t>>>>
       /\ people' = people
       /\ active_trip_mode' = active_trip_mode
       /\ parking' = parking]_vars
\* A trip was cancelled before its start while its person was under way
\* on another trip with an agent bound.
C17_Witness ==
  /\ Running
  /\ last.op = "cancel_unstarted_trip"
  /\ Cancelled(last.trip) /\ ~Started(last.trip)
  /\ InTrip(StateOf(last.trip))
  /\ AgentsOfPerson(trips[last.trip + 1].person) # {}

(***************************************************************************)
(* The events of cancel_trip.                                              *)
(***************************************************************************)
\* The arrival event of a cancel-warp of trip t.
ArrivalEvent(t) ==
  LET trip == trips[t + 1] IN
  IF trip.end[1] = "Bldg"
    THEN <<"PersonEntersBuilding", trip.person, trip.end[2]>>
    ELSE <<"PersonLeavesMap", trip.person, "None", trip.end[2], trip.end[3]>>
IsVehicleAlert(e) ==
  e[1] = "Alert" /\ e[3] \in {"car was warped", "nowhere to warp their car"}
\* The events cancel_trip wrote from position k of the buffer, where it
\* said TripCancelled: an optional PersonLeavesBuilding of the person, then
\* the arrival event.
CancelEventsAt(k) ==
  LET t == events[k][2]
      leaves == k + 1 <= Len(events) /\ events[k + 1][1] = "PersonLeavesBuilding"
      j == IF leaves THEN k + 2 ELSE k + 1
  IN /\ leaves => events[k + 1][2] = trips[t + 1].person
     /\ j <= Len(events)
     /\ events[j] = ArrivalEvent(t)
\* What cancel_trip writes first when it is called now for trip t:
\* TripCancelled, PersonLeavesBuilding exactly if the person is Inside(b)
\* now, and the arrival event.
CancelEventsNow(t) ==
  LET st == StateOf(t)
      p == trips[t + 1].person
      w == CancelAndWarp(World, t, "cancelled")
  IN w.events = <<<<"TripCancelled", t>>>>
                \o (IF st[1] = "Inside" THEN <<<<"PersonLeavesBuilding", p, st[2]>>>> ELSE <<>>)
                \o <<ArrivalEvent(t)>>

\* C18: cancel_trip emits TripCancelled first, then PersonLeavesBuilding(p,
\* b) if the person is Inside(b) at that moment, then the arrival event of
\* the trip's end (PersonEntersBuilding or PersonLeavesMap), then any Alert
\* about the vehicle; PersonLeavesBuilding never comes after the arrival
\* event of the same cancel-warp.
C18_CancelEventOrder ==
  /\ \A t \in TripIds : CancelEventsNow(t)
  /\ (Running /\ last.op \notin {"cancel_unstarted_trip", "spawn_ped"}) =>
       \A k \in 1..Len(events) :
         /\ events[k][1] = "TripCancelled" => CancelEventsAt(k)
         /\ events[k][1] = "PersonLeavesBuilding" =>
              k > 1 /\ events[k - 1][1] = "TripCancelled"
         /\ IsVehicleAlert(events[k]) =>
              /\ k > 2
              /\ events[k - 1][1] = "PersonEntersBuilding"
              /\ events[k - 1][2] = events[k][2]
              /\ \E c \in {k - 2, k - 3} :
                   /\ c >= 1
                   /\ events[c][1] = "TripCancelled"
                   /\ events[k - 1] = ArrivalEvent(events[c][2])
\* cancel_trip has written all four events: the person was inside a
\* building and the trip's car was warped to its destination.
C18_Witness ==
  /\ Running
  /\ Len(events) >= 4
  /\ events[1][1] = "TripCancelled"
  /\ events[2][1] = "PersonLeavesBuilding"
  /\ events[3][1] = "PersonEntersBuilding"
  /\ IsVehicleAlert(events[4])


\* C19.  In the event stream of a run, each PersonEntersBuilding about a
\* person is the first building event about the person or follows, since
\* the person's previous PersonEntersBuilding, a PersonLeavesBuilding about
\* the person: the events of a step are read in their order after the
\* stream of the steps before, and no PersonEntersBuilding finds the person
\* already entered.  This covers the failed start of a trip of a person who
\* is inside a building.
EntersInTurn(evs) ==
  \A k \in 1..Len(evs) :
    evs[k][1] = "PersonEntersBuilding"
      => StreamAfter(evs[k][2], SubSeq(evs, 1, k - 1)) # "entered"
C19_EntersFollowsLeaves ==
  [][(panicked' = "" /\ last'.op # "tick") => EntersInTurn(events')]_vars

(***************************************************************************)
(* The person after cancel_trip.                                           *)
(***************************************************************************)
\* The end of trip id as a state of its person.
WarpTarget(w, id) ==
  IF TripAt(w, id).end[1] = "Bldg" THEN StateInside(TripAt(w, id).end[2]) ELSE StateOffMap
\* cancel_trip called now for trip id, which is under way: up to the warp
\* the person is at the trip's end, and in every world the call returns the
\* person is not in Trip(id), and is at the trip's end if no trip was
\* waiting in delayed_trips.
CancelTripNow(id) ==
  LET person == trips[id + 1].person
      waiting == Len(people[person + 1].delayed_trips)
  IN /\ PersonAt(CancelAndWarp(World, id, "cancelled"), person).state = WarpedState(id)
     /\ \A w \in cancel_trip(World, now, id, "cancelled", NoVehicle) :
          w.panic = "" =>
            /\ PersonAt(w, person).state # StateTrip(id)
            /\ IF waiting = 0
                 THEN PersonAt(w, person).state = WarpedState(id)
                 ELSE Len(PersonAt(w, person).delayed_trips) < waiting
\* The drain of cancel_trip(t) dispatched a delayed trip in the step: a
\* trip that waited in delayed_trips, behind t if t waited there too, and
\* waits no more.
DispatchedBehind(t) ==
  LET person == trips'[t + 1].person
      before == people[person + 1].delayed_trips
      after == people'[person + 1].delayed_trips
  IN \E i \in 1..Len(before) :
       /\ \A j \in 1..Len(after) : after[j].trip # before[i].trip
       /\ \A j \in 1..Len(before) : before[j].trip = t => j < i

\* C20: cancel_trip(now, id, ...) warps the person to the end of the trip
\* (Inside(b) for a building, OffMap for a border) and then runs the drain
\* of delayed_trips; when it returns the person's state is never Trip(id),
\* and it is the warped state unless the drain dispatched a delayed trip.
C20_CancelTripWarps ==
  [][(panicked' = "" /\ last'.op \notin {"tick", "cancel_unstarted_trip"}) =>
       /\ \A t \in 0..(Len(trips') - 1) :
            (\E k \in 1..Len(events') : events'[k] = <<"TripCancelled", t>>) =>
              LET st == people'[trips'[t + 1].person + 1].state IN
              /\ st # StateTrip(t)
              /\ DispatchedBehind(t) \/ st = WarpTarget(World', t)
       /\ \A t \in TripIds : (Underway(t) /\ StateOf(t) = StateTrip(t)) => CancelTripNow(t)]_vars
\* cancel_trip ran for a trip whose person had a later trip waiting, the
\* drain started that trip, and the person is in it and not at the end of
\* the cancelled trip.
C20_Witness ==
  /\ Running
  /\ \E t \in TripIds, u \in TripIds :
       /\ last.op # "cancel_unstarted_trip"
       /\ Emitted(<<"TripCancelled", t>>)
       /\ trips[u + 1].person = trips[t + 1].person
       /\ Underway(u)
       /\ StateOf(t) = StateTrip(u)

(***************************************************************************)
(* The abandoned vehicle of cancel_trip.                                   *)
(***************************************************************************)
\* The vehicles cancel_trip may be given for trip t: none, or one of the
\* person's.
AbandonedChoices(t) ==
  LET vs == people[trips[t + 1].person + 1].vehicles
  IN {NoVehicle} \cup {vs[k] : k \in 1..Len(vs)}
\* The spots that hold no car now.
FreeNow == {s \in ParkingSpots : \A c \in DOMAIN parking : parking[c].spot # s}
\* The reservations and parkings among the parking manager's calls of w.
IsParkingCall(c) == c[1] \in {"reserve_spot", "add_parked_car"}
ParkingDone(w) == SelectSeq(w.parking_calls, IsParkingCall)
VehicleAlerts(w) == SelectSeq(w.events, IsVehicleAlert)
\* cancel_trip warped the vehicle to spot s at the time now.
WarpedTo(w, person, vehicle, s) ==
  /\ ParkingDone(w) = <<<<"reserve_spot", s>>, <<"add_parked_car", vehicle.id, s, now>>>>
  /\ VehicleAlerts(w) = <<<<"Alert", person, "car was warped">>>>
  /\ w.parking = MapInsert(parking, vehicle.id, [spot |-> s])
\* cancel_trip left the parking manager alone; alert says whether it said
\* that the car has nowhere to go.
NotWarped(w, person, alert) ==
  /\ ParkingDone(w) = <<>>
  /\ VehicleAlerts(w) = IF alert THEN <<<<"Alert", person, "nowhere to warp their car">>>> ELSE <<>>
  /\ w.parking = parking
\* The worlds cancel_trip(now, t, _, vehicle) ends in, for a trip whose
\* person has no trip waiting (the drain then does nothing).
WarpOutcomes(t, vehicle) ==
  LET person == trips[t + 1].person
      W == {w \in cancel_trip(World, now, t, "cancelled", vehicle) : w.panic = ""}
  IN IF vehicle.vehicle_type = "Car" /\ trips[t + 1].end[1] = "Bldg"
       THEN /\ \A w \in W : \/ \E s \in FreeNow : WarpedTo(w, person, vehicle, s)
                            \/ NotWarped(w, person, TRUE)
            /\ \A s \in FreeNow : \E w \in W : WarpedTo(w, person, vehicle, s)
            /\ W # {}
       ELSE \A w \in W : NotWarped(w, person, FALSE)

\* C21: cancel_trip with an abandoned car and a building as the trip's end
\* reserves a free spot and parks the car there with parked_since = now and
\* an Alert, or, with no spot, only says an Alert; for a bike, a border as
\* the end, or no vehicle, it makes no reservation and parks nothing.
C21_VehicleWarp ==
  /\ \A t \in TripIds :
       (Running /\ Underway(t) /\ StateOf(t) = StateTrip(t)
          /\ Len(people[trips[t + 1].person + 1].delayed_trips) = 0) =>
         \A vehicle \in AbandonedChoices(t) : WarpOutcomes(t, vehicle)
  /\ \A person \in PersonIds :
       (Running /\ Emitted(<<"Alert", person, "car was warped">>)) =>
         \E t \in TripIds, k \in 1..Len(people[person + 1].vehicles) :
           /\ trips[t + 1].person = person
           /\ Emitted(<<"TripCancelled", t>>)
           /\ trips[t + 1].end[1] = "Bldg"
           /\ people[person + 1].vehicles[k].vehicle_type = "Car"
\* A handler gave cancel_trip the car and the car was warped to a spot.
C21_Witness ==
  /\ Running
  /\ \E person \in PersonIds, c \in DOMAIN parking :
       /\ Emitted(<<"Alert", person, "car was warped">>)
       /\ HasVehicle(people[person + 1], c)

(***************************************************************************)
(* What start_trip dispatches.                                             *)
(***************************************************************************)
\* The TripSpec start_trip gets for trip t in the step: the one of the
\* StartTrip command of the scheduler, or of the entry of delayed_trips.
SpecsFor(t) ==
  {c.spec : c \in {x \in scheduler : x.cmd = "StartTrip" /\ x.trip = t}}
    \cup {people[p + 1].delayed_trips[k].spec :
            p \in {q \in PersonIds : q = trips[t + 1].person},
            k \in {j \in 1..Len(people[trips[t + 1].person + 1].delayed_trips) :
                     people[trips[t + 1].person + 1].delayed_trips[j].trip = t}}
\* The command each TripSpec variant is dispatched with.
CommandOf(kind) ==
  CASE kind = "VehicleAppearing" -> "SpawnCar"
    [] kind \in {"UsingParkedCar", "JustWalking", "UsingBike", "UsingTransit"} -> "SpawnPed"
    [] kind = "Remote" -> "FinishRemoteTrip"
    [] OTHER -> "none"
\* The commands the step pushed for trip t.
PushedFor(t) == {c \in scheduler' \ scheduler : c.trip = t}
\* start_trip went past the deferral for trip t in the step.
DispatchedNow(t) == ~Started(t) /\ trips'[t + 1].started /\ panicked' = ""

\* C22: a start_trip that dispatches (the person is not in Trip(_), the
\* preconditions hold, the path is there) sets started, puts the person in
\* Trip(trip) and pushes exactly one command: SpawnCar for VehicleAppearing,
\* SpawnPed for UsingParkedCar, JustWalking, UsingBike and UsingTransit,
\* FinishRemoteTrip for Remote; for a trip it cancels it pushes no command.
C22_DispatchPushesOneCommand ==
  [][\A t \in TripIds :
       DispatchedNow(t) =>
         /\ (last'.op = "start_trip" /\ last'.trip = t) => ~InTrip(StateOf(t))
         /\ IF CancelledAfter(t)
              THEN PushedFor(t) = {}
              ELSE /\ people'[trips[t + 1].person + 1].state = StateTrip(t)
                   /\ Cardinality(PushedFor(t)) = 1
                   /\ \A c \in PushedFor(t), spec \in SpecsFor(t) :
                        c.cmd = CommandOf(spec.kind)
                   /\ SpecsFor(t) # {}]_vars
\* start_trip dispatched a trip with a car that appears at the border.
C22_Witness ==
  /\ Running
  /\ last.op = "start_trip"
  /\ Started(last.trip) /\ ~Cancelled(last.trip)
  /\ StateOf(last.trip) = StateTrip(last.trip)
  /\ \E c \in scheduler : c.cmd = "SpawnCar" /\ c.trip = last.trip

(***************************************************************************)
(* The congestion cap and the pathfinding failure.                         *)
(***************************************************************************)
\* World w without the mark the cap left on trip t.
Uncapped(w, t) == [w EXCEPT !.trips[t + 1].capped = FALSE]
SpawnCarPushed(w, t) == \E c \in w.scheduler : c.cmd = "SpawnCar" /\ c.trip = t
\* The drive of trip t failed in w: no SpawnCar, the trip cancelled with a
\* reason, the parked car removed first, and the vehicle handed to
\* cancel_trip (which speaks of a car when the trip ends at a building).
FailedDrive(w, t, car, parked) ==
  /\ ~SpawnCarPushed(w, t)
  /\ TripAt(w, t).cancellation_reason # NoReason
  /\ \E k \in 1..Len(w.events) : w.events[k] = <<"TripCancelled", t>>
  /\ parked => /\ Len(w.parking_calls) > 0
               /\ w.parking_calls[1] = <<"remove_parked_car", car>>
  /\ (TripAt(w, t).end[1] = "Bldg" /\ car[2] = "Car") =>
       \E k \in 1..Len(w.events) :
         /\ IsVehicleAlert(w.events[k])
         /\ \E j \in 1..(k - 1) : w.events[j] = <<"TripCancelled", t>>
SpawnedDrive(w, t) ==
  /\ SpawnCarPushed(w, t)
  /\ TripAt(w, t).cancellation_reason = NoReason
\* The worlds W a call can end in, over the answers of pathfinding and of
\* the cap: each spawns the car or fails, and the failures the cap causes
\* are, but for the cap's mark, the failures of pathfinding.
DriveOutcomes(W, t, car, parked) ==
  LET ok == {w \in W : w.panic = ""}
      failed == {w \in ok : ~SpawnedDrive(w, t)}
      by_cap == {w \in failed : TripAt(w, t).capped}
      by_path == {w \in failed : ~TripAt(w, t).capped}
  IN /\ \A w \in failed : FailedDrive(w, t, car, parked)
     /\ {Uncapped(w, t) : w \in by_cap} = by_path
     /\ ok # {} => by_cap # {} /\ by_path # {} /\ failed # ok
\* The outcomes of the calls that are due now.
StartOutcomes(c) ==
  UNION {start_trip(Without(World, c), now, c.trip, c.spec, c.maybe_req, path) :
           path \in GivenPaths(c)}
DriveAfter(t) ==
  IF Len(trips[t + 1].legs) >= 2 THEN trips[t + 1].legs[2].car ELSE NoCar

\* C23: a rejection by the congestion cap has the outcome of a pathfinding
\* failure: in start_trip for VehicleAppearing and in
\* ped_reached_parking_spot either failure schedules no SpawnCar, cancels
\* the trip with a reason and hands the vehicle to cancel_trip
\* (ped_reached_parking_spot removes the parked car first).
C23_CapRejectionIsPathFailure ==
  Running =>
    /\ \A c \in Due :
         (c.cmd = "StartTrip" /\ c.spec.kind = "VehicleAppearing"
            /\ ~InTrip(people[c.person + 1].state)) =>
           DriveOutcomes(StartOutcomes(c), c.trip, c.spec.car, FALSE)
    /\ \A a \in Walkers("ParkingSpot") :
         DriveOutcomes(ped_reached_parking_spot(World, now, a[2], sims[a].goal[2], 0),
                       TripOf(a), DriveAfter(TripOf(a)), TRUE)
\* The cap rejected the drive from the parking spot: the trip is capped and
\* cancelled, and its car was warped.
C23_Witness ==
  /\ Running
  /\ last.op = "ped_reached_parking_spot"
  /\ trips[last.trip + 1].capped
  /\ Cancelled(last.trip)
  /\ Emitted(<<"Alert", trips[last.trip + 1].person, "car was warped">>)

(***************************************************************************)
(* Remote trips.                                                           *)
(***************************************************************************)
\* start_trip dispatched the remote trip t in the step: the person leaves
\* the remote building, is in Trip(t), and FinishRemoteTrip(t) is scheduled
\* trip_time from now.
RemoteStarted(t, spec) ==
  LET person == trips[t + 1].person IN
  /\ (last'.op = "start_trip" /\ last'.trip = t) => StateOf(t) = StateOffMap
  /\ ~CancelledAfter(t)
  /\ people'[person + 1].state = StateTrip(t)
  /\ PushedFor(t) = {FinishRemoteTrip(now + spec.trip_time, t, person)}
  /\ \E k \in 1..Len(events') :
       /\ events'[k] = <<"PersonLeavesRemoteBuilding", person, spec.start[3]>>
       /\ k < Len(events')
       /\ events'[k + 1] = <<"TripPhaseStarting", t, person, "Remote">>
\* remote_trip_finished ran for trip t in the step, on the command c.
RemoteFinished(t, c) ==
  LET person == trips[t + 1].person
      trip == trips[t + 1]
      waiting == Len(people[person + 1].delayed_trips)
  IN /\ c.time = now
     /\ Len(trip.legs) = 1 /\ trip.legs[1].leg = "Remote"
     /\ trips'[t + 1].legs = <<>>
     /\ trips'[t + 1].finished_at = now
     /\ Len(events') >= 2
     /\ events'[1] = <<"TripFinished", t, trip.mode, now - trip.departure,
                       trip.total_blocked_time>>
     /\ events'[2] = <<"PersonEntersRemoteBuilding", person, trip.legs[1].to>>
     /\ c.time - RemoteTripTime = trip.departure => events'[1][4] = RemoteTripTime
     /\ IF waiting = 0
          THEN people'[person + 1].state = StateOffMap /\ Len(events') = 2
          ELSE Len(people'[person + 1].delayed_trips) < waiting

\* C24: start_trip with TripSpec::Remote emits PersonLeavesRemoteBuilding,
\* puts the person (who is OffMap) in Trip(trip) and schedules
\* FinishRemoteTrip(trip) at now + trip_time; remote_trip_finished pops the
\* single Remote(to) leg, sets finished_at, emits TripFinished and then
\* PersonEntersRemoteBuilding(person, to), sets the state to OffMap and
\* drains delayed_trips; a remote trip started at its departure reports
\* its trip_time as total_time.
C24_RemoteTrip ==
  [][panicked' = "" =>
       /\ \A t \in TripIds : \A spec \in SpecsFor(t) :
            (DispatchedNow(t) /\ spec.kind = "Remote") => RemoteStarted(t, spec)
       /\ last'.op = "remote_trip_finished" =>
            \E c \in scheduler \ scheduler' :
              /\ c.cmd = "FinishRemoteTrip" /\ c.trip = last'.trip
              /\ RemoteFinished(last'.trip, c)]_vars
\* A remote trip that started at its departure has arrived.
C24_Witness ==
  /\ Running
  /\ last.op = "remote_trip_finished"
  /\ Finished(last.trip)
  /\ events[1][1] = "TripFinished" /\ events[1][4] = RemoteTripTime
  /\ StateOf(last.trip) = StateOffMap

(***************************************************************************)
(* Blocked time.                                                           *)
(***************************************************************************)
RECURSIVE SumBlocked(_)
SumBlocked(ts) ==
  IF Len(ts) = 0 THEN 0 ELSE ts[1].total_blocked_time + SumBlocked(PopFront(ts))

\* C25: the sum of total_blocked_time over all trips is the sum of the
\* blocked_time arguments passed to the handlers; each handler adds its
\* argument once, to the trip of the completing agent and to no other
\* (ped_reached_bus_stop also when the pedestrian has to wait).
C25_BlockedTimeAdded ==
  [][panicked' = "" =>
       /\ \A t \in TripIds :
            trips'[t + 1].total_blocked_time =
              trips[t + 1].total_blocked_time + (IF t = last'.trip THEN last'.blocked ELSE 0)
       /\ \A t \in (0..(Len(trips') - 1)) \ TripIds : trips'[t + 1].total_blocked_time = 0
       /\ SumBlocked(trips') = blocked_passed']_vars
\* ped_reached_bus_stop was given blocked time for the person's second
\* trip and found no bus: the pedestrian waits and the time is counted.
C25_Witness ==
  /\ Running
  /\ last.op = "ped_reached_bus_stop" /\ last.blocked > 0 /\ last.trip > 0
  /\ Pedestrian(people[trips[last.trip + 1].person + 1].ped) \in DOMAIN active_trip_mode
  /\ trips[last.trip + 1].total_blocked_time = blocked_passed
  /\ blocked_passed > 0

(***************************************************************************)
(* The query trip_to_agent.                                                *)
(***************************************************************************)
\* The agent the head leg of trip id expects: the person's pedestrian for
\* Walk, Car(c) for Drive(c), the passenger of the bus the person is on for
\* RideBus.
ExpectedAgents(id) ==
  LET trip == trips[id + 1]
      person == people[trip.person + 1]
  IN {a \in AgentsOf(id) :
        \/ trip.legs[1].leg = "Walk" /\ a = Pedestrian(person.ped)
        \/ trip.legs[1].leg = "Drive" /\ a = Car(trip.legs[1].car)
        \/ trip.legs[1].leg = "RideBus" /\ a = BusPassenger(trip.person, person.on_bus)}
\* The results the priority of the claim allows for id.
ResultsFor(id) ==
  IF id \notin TripIds THEN {<<"TripDoesntExist">>}
  ELSE IF Finished(id) THEN {<<"TripDone">>}
  ELSE IF Cancelled(id) THEN {<<"TripCancelled">>}
  ELSE IF ~Started(id) THEN {<<"TripNotStarted">>}
  ELSE IF Len(trips[id + 1].legs) > 0 /\ trips[id + 1].legs[1].leg = "Remote"
    THEN {<<"RemoteTrip">>}
  ELSE IF Len(trips[id + 1].legs) > 0 /\ ExpectedAgents(id) # {}
    THEN {<<"Ok", a>> : a \in ExpectedAgents(id)}
  ELSE {<<"ModeChange">>}

\* C26: trip_to_agent(id) is total: TripDoesntExist for an id that is no
\* trip, then TripDone, TripCancelled, TripNotStarted and RemoteTrip in this
\* priority, otherwise Ok(a) exactly when the agent a the head leg expects
\* is bound to id, and ModeChange when it is not; it never panics.
C26_TripToAgentIsTotal ==
  \A id \in 0..Len(trips) :
    /\ trip_to_agent(World, id)[1] # "panic"
    /\ trip_to_agent(World, id) \in ResultsFor(id)
\* The person rides the bus, a trip of the person is done, and one id is no
\* trip: Ok(BusPassenger), TripDone and TripDoesntExist are all answered.
C26_Witness ==
  /\ Running
  /\ \E id \in TripIds : /\ trip_to_agent(World, id)[1] = "Ok"
                          /\ trip_to_agent(World, id)[2][1] = "BusPassenger"
  /\ \E id \in TripIds : trip_to_agent(World, id) = <<"TripDone">>
  /\ trip_to_agent(World, Len(trips)) = <<"TripDoesntExist">>

(***************************************************************************)
(* Parking inside the destination.                                         *)
(***************************************************************************)
\* The car of driver a parked at spot, as the driving simulator leaves it
\* before it reports.
ParkedAt(a, spot) == [World EXCEPT !.parking = MapInsert(@, a[3], [spot |-> spot])]
\* The leg after the Drive leg of trip t is the walk into the building
\* that owns the off-street spot.
WalkIntoOwner(t, spot) ==
  LET legs == trips[t + 1].legs IN
  /\ spot[1] = "Offstreet"
  /\ Len(legs) >= 2 /\ legs[2].leg = "Walk" /\ legs[2].spot = POIBuilding(spot[2])
\* World w: the trip t finished in the call, inside building b.
FinishedInside(w, t, b) ==
  LET trip == trips[t + 1]
      person == trip.person
      waiting == Len(people[person + 1].delayed_trips)
  IN /\ TripAt(w, t).finished_at = now
     /\ Len(w.events) >= 2
     /\ w.events[1] = <<"TripFinished", t, trip.mode, now - trip.departure,
                        trip.total_blocked_time>>
     /\ w.events[2] = <<"PersonEntersBuilding", person, b>>
     /\ \A c \in w.scheduler : ~(c.cmd = "SpawnPed" /\ c.trip = t)
     /\ IF waiting = 0
          THEN /\ PersonAt(w, person).state = StateInside(b)
               /\ w.unfinished_trips = unfinished_trips - 1
          ELSE Len(PersonAt(w, person).delayed_trips) < waiting
\* World w: the pedestrian of the next leg of trip t was spawned and the
\* trip goes on.
WalksOn(w, t) ==
  LET trip == trips[t + 1] IN
  /\ TripAt(w, t).finished_at = NoTime
  /\ w.unfinished_trips = unfinished_trips
  /\ Len(trip.legs) >= 2
  /\ SpawnPed(now, trip.legs[2].spot, t, trip.person) \in w.scheduler
  /\ PersonAt(w, trip.person).state = StateTrip(t)
ParkingOutcome(a, spot) ==
  \A w \in car_reached_parking_spot(ParkedAt(a, spot), now, a[3], spot, 0) :
    w.panic = "" =>
      IF WalkIntoOwner(TripOf(a), spot)
        THEN FinishedInside(w, TripOf(a), spot[2])
        ELSE WalksOn(w, TripOf(a))

\* C27: car_reached_parking_spot(car, Offstreet(b, _)) with Walk to
\* building b as the leg after the Drive leg finishes the trip in that
\* call: finished_at = now, the counter decremented once, TripFinished then
\* PersonEntersBuilding(person, b), state Inside(b), delayed_trips drained,
\* no SpawnPed; for any other spot or walking goal the handler spawns the
\* pedestrian of the next leg and does not finish the trip.
C27_ParkInsideDestination ==
  Running =>
    \A a \in Drivers("Car", "ParkNear") :
      \A spot \in FreeSpotAnswers(World) \ {<<"None", 0>>} : ParkingOutcome(a, spot)

(***************************************************************************)
(* The bus stop.                                                           *)
(***************************************************************************)
\* ped_reached_bus_stop called now for walker a, with the answer maybe_bus
\* of transit: the event, and the boarding or the wait.
BusStopOutcome(a, maybe_bus) ==
  LET t == TripOf(a)
      trip == trips[t + 1]
      person == trip.person
      w == ped_reached_bus_stop(World, now, a[2], sims[a].goal[2], 0, maybe_bus)
  IN w.panic = "" =>
       /\ w.events = <<<<"TripPhaseStarting", t, person, "WaitingForBus">>>>
       /\ IF maybe_bus # NoCar
            THEN /\ TripAt(w, t).legs = PopFront(trip.legs)
                 /\ a \notin DOMAIN w.active_trip_mode
                 /\ DOMAIN w.active_trip_mode =
                      (DOMAIN active_trip_mode \ {a}) \cup {BusPassenger(person, maybe_bus)}
                 /\ w.active_trip_mode[BusPassenger(person, maybe_bus)] = t
                 /\ PersonAt(w, person).on_bus = maybe_bus
                 /\ w.returned = <<"None">>
            ELSE /\ w.returned = <<"Some", trip.legs[2].route>>
                 /\ trip.legs[2].leg = "RideBus"
                 /\ TripAt(w, t).legs = trip.legs
                 /\ trip.legs[1].leg = "Walk"
                 /\ w.active_trip_mode = active_trip_mode
                 /\ active_trip_mode[a] = t
                 /\ PersonAt(w, person).on_bus = people[person + 1].on_bus

\* C28: ped_reached_bus_stop emits TripPhaseStarting(WaitingForBus); with a
\* bus present it pops the walk leg, replaces the binding Pedestrian(ped) by
\* BusPassenger(person, bus) for the same trip, sets on_bus = Some(bus) and
\* returns None; with no bus it returns Some(route) and leaves the walk leg
\* as head, the Pedestrian(ped) binding and on_bus as they were.
C28_BusStopBoardsOrWaits ==
  Running =>
    /\ \A a \in Walkers("BusStop"), maybe_bus \in {NoCar, BusX} : BusStopOutcome(a, maybe_bus)
    /\ last.op = "ped_reached_bus_stop" =>
         /\ events = <<<<"TripPhaseStarting", last.trip, trips[last.trip + 1].person,
                         "WaitingForBus">>>>
         /\ Cardinality(AgentsOf(last.trip)) = 1
\* The bus was at the stop: the person's second trip has its passenger
\* bound and the ride as head leg.
C28_Witness ==
  /\ Running
  /\ last.op = "ped_reached_bus_stop" /\ last.trip > 0
  /\ AgentsOf(last.trip) = {BusPassenger(trips[last.trip + 1].person, BusX)}
  /\ people[trips[last.trip + 1].person + 1].on_bus = BusX
  /\ trips[last.trip + 1].legs[1].leg = "RideBus"

(***************************************************************************)
(* The bus ride.                                                           *)
(***************************************************************************)
\* The pedestrians that wait at a bus stop.
WaitingWalkers == {a \in DOMAIN sims : a[1] = "Pedestrian" /\ sims[a].waiting}
\* ped_boarded_bus called now for the waiting pedestrian a.
BoardedOutcome(a, bus) ==
  LET t == TripOf(a)
      trip == trips[t + 1]
      person == trip.person
      w == ped_boarded_bus(World, now, a[2], bus, 0)
  IN w.panic = "" =>
       /\ trip.legs[1].leg = "Walk"
       /\ TripAt(w, t).legs = PopFront(trip.legs)
       /\ DOMAIN w.active_trip_mode =
            (DOMAIN active_trip_mode \ {a}) \cup {BusPassenger(person, bus)}
       /\ a \notin DOMAIN w.active_trip_mode
       /\ w.active_trip_mode[BusPassenger(person, bus)] = t
       /\ PersonAt(w, person).on_bus = bus
\* person_left_bus called now for the rider a: loud on a ride to the end
\* of the route, else the passenger is unbound, the ride popped, on_bus
\* cleared and the pedestrian of the next Walk leg spawned.
LeftBusOutcome(a) ==
  LET t == TripOf(a)
      trip == trips[t + 1]
      person == trip.person
  IN \A w \in person_left_bus(World, now, a[2], a[3]) :
       IF trip.legs[1].leg = "RideBus" /\ trip.legs[1].stop2 = NoStop
         THEN w.panic # ""
         ELSE w.panic = "" =>
                /\ trip.legs[1].leg = "RideBus"
                /\ a \notin DOMAIN w.active_trip_mode
                /\ TripAt(w, t).legs = PopFront(trip.legs)
                /\ PersonAt(w, person).on_bus = NoCar
                /\ Len(trip.legs) >= 2 /\ trip.legs[2].leg = "Walk"
                /\ SpawnPed(now, trip.legs[2].spot, t, person) \in w.scheduler

\* C29: ped_boarded_bus(ped, bus) pops the walk leg, replaces
\* Pedestrian(ped) by BusPassenger(person, bus) and sets on_bus = Some(bus);
\* person_left_bus(person, bus) removes the BusPassenger binding, pops
\* RideBus(_, Some(stop2)), clears on_bus and spawns a pedestrian from stop2
\* toward the next Walk leg; on a head leg RideBus(_, None) it fails loudly.
C29_BusRide ==
  Running =>
    /\ \A a \in WaitingWalkers : BoardedOutcome(a, BusX)
    /\ \A a \in Riders : a \in DOMAIN active_trip_mode => LeftBusOutcome(a)

(***************************************************************************)
(* Arriving at the destination building.                                   *)
(***************************************************************************)
\* ped_reached_building called now for walker a with blocked_time: it
\* returns only when the walk to the building was the last leg of an
\* unfinished trip, and then the trip is finished and the person is inside
\* or already on the next trip.  The one failure left is start_trip's, when
\* the trip that waited is an off-map one (it asserts the state OffMap).
BuildingOutcome(a, blocked_time) ==
  LET t == TripOf(a)
      trip == trips[t + 1]
      person == trip.person
      bldg == sims[a].goal[2]
      waiting == people[person + 1].delayed_trips
  IN \A w \in ped_reached_building(World, now, a[2], bldg, blocked_time) :
       IF \/ t = -1
          \/ ~HeadIsWalkTo(World, t, POIBuilding(bldg))
          \/ Len(trip.legs) # 1
          \/ trip.finished_at # NoTime
         THEN w.panic # ""
         ELSE
           /\ w.panic # "" => waiting # <<>> /\ waiting[1].spec.kind = "Remote"
           /\ w.panic = "" =>
                /\ a \notin DOMAIN w.active_trip_mode
                /\ TripAt(w, t).legs = <<>>
                /\ TripAt(w, t).finished_at = now
                /\ TripAt(w, t).total_blocked_time = trip.total_blocked_time + blocked_time
                /\ Len(w.events) >= 2
                /\ w.events[1] = <<"TripFinished", t, trip.mode, now - trip.departure,
                                   trip.total_blocked_time + blocked_time>>
                /\ w.events[2] = <<"PersonEntersBuilding", person, bldg>>
                /\ IF waiting = <<>>
                     THEN /\ PersonAt(w, person).state = StateInside(bldg)
                          /\ w.unfinished_trips = unfinished_trips - 1
                          /\ Len(w.events) = 2
                          /\ PersonAt(w, person).delayed_trips = <<>>
                     ELSE /\ PersonAt(w, person).delayed_trips = PopFront(waiting)
                          /\ TripAt(w, waiting[1].trip).started
                          /\ ~trips[waiting[1].trip + 1].started
                          /\ w.unfinished_trips \in {unfinished_trips - 1, unfinished_trips - 2}
                          /\ PersonAt(w, person).state # StateInside(bldg) =>
                               \/ PersonAt(w, person).state = StateTrip(waiting[1].trip)
                               \/ TripAt(w, waiting[1].trip).cancellation_reason # NoReason

\* C30: ped_reached_building(ped, bldg) unbinds Pedestrian(ped), pops the
\* head leg Walk(building(bldg)), fails unless legs are then empty and the
\* trip was not finished, sets finished_at = now, decrements
\* unfinished_trips once, emits TripFinished and then
\* PersonEntersBuilding(person, bldg), sets the person's state to
\* Inside(bldg) and starts the first of the person's delayed trips.
C30_ReachedBuildingFinishesTrip ==
  Running =>
    /\ \A a \in Walkers("Building"), blocked \in BlockedTimes : BuildingOutcome(a, blocked)
    /\ last.op = "ped_reached_building" =>
         /\ Len(events) >= 2
         /\ events[1][1] = "TripFinished" /\ events[1][2] = last.trip
         /\ events[2][1] = "PersonEntersBuilding"
         /\ events[2][2] = trips[last.trip + 1].person
         /\ trips[last.trip + 1].finished_at = now
         /\ trips[last.trip + 1].legs = <<>>
         /\ AgentsOf(last.trip) = {}
\* A walker got home while a later trip of the person waited: the waiting
\* trip was started in the same call.
C30_Witness ==
  /\ Running
  /\ last.op = "ped_reached_building"
  /\ Len(events) > 2
  /\ events[2][1] = "PersonEntersBuilding"
  /\ \E t \in 1..Len(trips) : t - 1 # last.trip /\ trips[t].started
                                /\ trips[t].person = trips[last.trip + 1].person

(***************************************************************************)
(* Leaving the map.                                                        *)
(***************************************************************************)
\* What a border handler called now for agent a may end in (outcomes), when
\* the head leg is the handler's (head_ok): it fails unless that leg is the
\* last one of an unfinished trip; when it returns the trip is finished and
\* the person is off the map or already on the next trip.  The one failure
\* left is that of start_trip for the trip that waited.
ExitOutcome(outcomes, a, blocked_time, head_ok) ==
  LET t == TripOf(a)
      trip == trips[t + 1]
      person == trip.person
      waiting == people[person + 1].delayed_trips
  IN \A w \in outcomes :
       IF t = -1 \/ ~head_ok \/ Len(trip.legs) # 1 \/ trip.finished_at # NoTime
         THEN w.panic # ""
         ELSE
           /\ w.panic # "" => waiting # <<>>
           /\ w.panic = "" =>
                /\ a \notin DOMAIN w.active_trip_mode
                /\ TripAt(w, t).legs = <<>>
                /\ TripAt(w, t).finished_at = now
                /\ Len(w.events) >= 2
                /\ w.events[1] = <<"TripFinished", t, trip.mode, now - trip.departure,
                                   trip.total_blocked_time + blocked_time>>
                /\ w.events[2][1] = "PersonLeavesMap"
                /\ w.events[2][2] = person
                /\ w.events[2][3] = a
                /\ IF waiting = <<>>
                     THEN /\ PersonAt(w, person).state = StateOffMap
                          /\ w.unfinished_trips = unfinished_trips - 1
                          /\ Len(w.events) = 2
                     ELSE /\ PersonAt(w, person).delayed_trips = PopFront(waiting)
                          /\ TripAt(w, waiting[1].trip).started
                          /\ w.unfinished_trips \in {unfinished_trips - 1, unfinished_trips - 2}
                          /\ PersonAt(w, person).state # StateOffMap =>
                               \/ PersonAt(w, person).state = StateTrip(waiting[1].trip)
                               \/ TripAt(w, waiting[1].trip).cancellation_reason # NoReason
HeadLeg(a) == IF TripOf(a) >= 0 /\ Len(trips[TripOf(a) + 1].legs) > 0
                THEN trips[TripOf(a) + 1].legs[1] ELSE Walk(POISuddenlyAppear)
BorderDrivers == {a \in DOMAIN sims : a[1] = "Car" /\ sims[a].goal[1] = "Border"}
BorderRiders == {a \in Riders : a \in DOMAIN active_trip_mode}
BorderExits == {"ped_reached_border", "car_or_bike_reached_border",
                "transit_rider_reached_border"}

\* C31: ped_reached_border, car_or_bike_reached_border and
\* transit_rider_reached_border each unbind the completing agent, pop the
\* final leg (Walk to border i, Drive(car, Border(i)), RideBus(_, None)),
\* fail unless legs are then empty, set finished_at = now, decrement
\* unfinished_trips once, emit TripFinished and a PersonLeavesMap for the
\* person, set the state to OffMap and start the first delayed trip.
C31_BorderExitsFinishTrip ==
  Running =>
    /\ \A a \in Walkers("Border"), blocked \in BlockedTimes :
         ExitOutcome(ped_reached_border(World, now, a[2], sims[a].goal[2], blocked), a, blocked,
                     /\ HeadLeg(a).leg = "Walk"
                     /\ HeadLeg(a).spot[1] = "Border"
                     /\ HeadLeg(a).spot[2] = sims[a].goal[2])
    /\ \A a \in BorderDrivers, blocked \in BlockedTimes :
         ExitOutcome(car_or_bike_reached_border(World, now, a[3], sims[a].goal[2], blocked),
                     a, blocked,
                     /\ HeadLeg(a).leg = "Drive"
                     /\ HeadLeg(a).car = a[3]
                     /\ HeadLeg(a).goal[1] = "Border"
                     /\ HeadLeg(a).goal[2] = sims[a].goal[2])
    /\ \A a \in BorderRiders :
         ExitOutcome(transit_rider_reached_border(World, now, a[2], a[3]), a, 0,
                     HeadLeg(a).leg = "RideBus" /\ HeadLeg(a).stop2 = NoStop)
    /\ last.op \in BorderExits =>
         /\ Len(events) >= 2
         /\ events[1][1] = "TripFinished" /\ events[1][2] = last.trip
         /\ events[2][1] = "PersonLeavesMap"
         /\ events[2][2] = trips[last.trip + 1].person
         /\ trips[last.trip + 1].finished_at = now
         /\ trips[last.trip + 1].legs = <<>>
         /\ AgentsOf(last.trip) = {}
\* A person left the map by car with nothing waiting: one trip finished, the
\* person off the map.
C31_Witness ==
  /\ Running
  /\ last.op = "car_or_bike_reached_border"
  /\ Len(events) = 2 /\ events[2][1] = "PersonLeavesMap"
  /\ StateOf(last.trip) = StateOffMap
  /\ trips[last.trip + 1].finished_at = now

(***************************************************************************)
(* Completions reported to the wrong handler.                              *)
(***************************************************************************)
\* The head leg of the trip agent a is bound to, as w has it.
HeadOf(a) == LET legs == trips[TripOf(a) + 1].legs
             IN IF Len(legs) > 0 THEN legs[1] ELSE [leg |-> "none"]
\* Handler h called now for the bound agent a returns only when the head
\* leg of a's trip is the variant, and the target, that h is for.
HeadChecked(h, a) ==
  LET head == HeadOf(a) IN
  CASE h = "ped_reached_building" ->
         \A b \in Buildings : \A w \in ped_reached_building(World, now, a[2], b, 0) :
           w.panic = "" => head.leg = "Walk" /\ head.spot = POIBuilding(b)
    [] h = "ped_reached_border" ->
         \A w \in ped_reached_border(World, now, a[2], BorderI, 0) :
           w.panic = "" => /\ head.leg = "Walk"
                           /\ head.spot[1] = "Border" /\ head.spot[2] = BorderI
    [] h = "ped_reached_bus_stop" ->
         ped_reached_bus_stop(World, now, a[2], 1, 0, BusX).panic = ""
           => head.leg = "Walk" /\ head.spot = POIBusStop(1)
    [] h = "ped_boarded_bus" ->
         ped_boarded_bus(World, now, a[2], BusX, 0).panic = ""
           => head.leg = "Walk" /\ head.spot[1] = "BusStop"
    [] h = "person_left_bus" ->
         \A w \in person_left_bus(World, now, a[2], a[3]) :
           w.panic = "" => head.leg = "RideBus" /\ head.stop2 # NoStop
    [] h = "transit_rider_reached_border" ->
         \A w \in transit_rider_reached_border(World, now, a[2], a[3]) :
           w.panic = "" => head.leg = "RideBus" /\ head.stop2 = NoStop

\* C32: every leg-completion handler checks the head leg before popping
\* it: called for an agent whose trip's head leg is not the variant and
\* target the handler expects, it fails instead of popping the leg and
\* going on; ped_boarded_bus included.
C32_HandlersCheckHeadLeg ==
  Running =>
    \A a \in StrayAgents : a \in DOMAIN active_trip_mode =>
      \A h \in HandlersOf(a) : HeadChecked(h, a)

(***************************************************************************)
(* The figures of TripFinished.                                            *)
(***************************************************************************)
\* Trip t (its index in trips) gets its finished_at in this step.
FinishedNow(t) ==
  /\ t <= Len(trips) => trips[t].finished_at = NoTime
  /\ trips'[t].finished_at # NoTime
TripFinishedEvents(evs, id) == {k \in 1..Len(evs) : evs[k][1] = "TripFinished" /\ evs[k][2] = id}

\* C33: a trip is finished exactly in a step that emits its TripFinished,
\* once; the event carries total_time = finish time - scheduled departure
\* (also for a trip that was started late, out of delayed_trips) and
\* blocked_time = the trip's total_blocked_time, and total_time is never
\* negative.
C33_TripFinishedFigures ==
  [][panicked' = "" =>
       \A t \in 1..Len(trips') :
         LET found == TripFinishedEvents(events', t - 1) IN
         IF FinishedNow(t)
           THEN /\ Cardinality(found) = 1
                /\ \A k \in found :
                     /\ events'[k][4] = trips'[t].finished_at - trips'[t].departure
                     /\ events'[k][4] >= 0
                     /\ events'[k][5] = trips'[t].total_blocked_time
                     /\ events'[k][3] = trips'[t].mode
                /\ trips'[t].finished_at = now'
           ELSE found = {}]_vars
\* The second trip of a person waited in delayed_trips until the first one
\* finished at time 1, was started then and finished at once: its
\* total_time is 1, counted from its departure at 0.
C33_Witness ==
  /\ Running
  /\ Len(trips) = 2 /\ Len(events) > 0
  /\ events[1][1] = "TripFinished" /\ events[1][2] = 1 /\ events[1][4] = 1
  /\ trips[1].person = trips[2].person
  /\ trips[1].finished_at = now /\ trips[2].finished_at = now
  /\ trips[2].departure = 0

(***************************************************************************)
(* Bindings of trips that are over.                                        *)
(***************************************************************************)
\* Trip id of world w is started and neither finished nor cancelled.
LiveIn(w, id) ==
  /\ TripAt(w, id).started
  /\ TripAt(w, id).finished_at = NoTime
  /\ TripAt(w, id).cancellation_reason = NoReason
\* cancel_trip without a vehicle, called now for the trip of driver a whose
\* head leg is Drive(c, _): Car(c) is unbound and nothing maps to the trip.
CancelUnbinds(a) ==
  LET t == TripOf(a)
      head == trips[t + 1].legs[1]
  IN \A w \in cancel_trip(World, now, t, "no available parking", NoVehicle) :
       w.panic = "" =>
         /\ head.leg = "Drive" /\ head.car = a[3]
         /\ Car(head.car) \notin DOMAIN w.active_trip_mode
         /\ \A b \in DOMAIN w.active_trip_mode : w.active_trip_mode[b] # t
         /\ TripAt(w, t).cancellation_reason # NoReason
         /\ \A b \in DOMAIN w.active_trip_mode : LiveIn(w, w.active_trip_mode[b])

\* C34: every trip that is a value of active_trip_mode is started, not
\* finished and not cancelled; cancel_trip called without a vehicle on a
\* trip whose head leg is Drive(c, _) removes the binding of Car(c), and
\* when it returns no agent maps to the cancelled trip.
C34_NoAgentOfFinishedTrip ==
  /\ \A a \in DOMAIN active_trip_mode : LiveIn(World, active_trip_mode[a])
  /\ Running =>
       \A a \in Drivers("Car", "ParkNear") : TripOf(a) >= 0 => CancelUnbinds(a)
\* The driving simulator gave up on parking: the trip is cancelled, its car
\* unbound, while nothing else is bound.
C34_Witness ==
  /\ Running
  /\ last.op = "cancel_trip"
  /\ trips[last.trip + 1].cancellation_reason = "no available parking"
  /\ trips[last.trip + 1].legs # <<>> /\ trips[last.trip + 1].legs[1].leg = "Drive"
  /\ AgentsOf(last.trip) = {}

(***************************************************************************)
(* The lifecycle of people and trips.                                      *)
(***************************************************************************)
\* people and trips only grow, index = identity, what a trip is stays.
AppendOnly ==
  /\ Len(people') >= Len(people) /\ Len(trips') >= Len(trips)
  /\ \A i \in 1..Len(people') : people'[i].id = i - 1
  /\ \A i \in 1..Len(trips') : trips'[i].id = i - 1
  /\ \A i \in 1..Len(people) : people'[i].ped = people[i].ped
  /\ \A i \in 1..Len(trips) :
       /\ trips'[i].person = trips[i].person
       /\ trips'[i].departure = trips[i].departure
       /\ trips'[i].start = trips[i].start /\ trips'[i].end = trips[i].end
\* legs lose their first element or stay; started stays once set.
LegsShrink ==
  \A i \in 1..Len(trips) :
    /\ trips'[i].legs = trips[i].legs
         \/ (trips[i].legs # <<>> /\ trips'[i].legs = PopFront(trips[i].legs))
    /\ trips[i].started => trips'[i].started
OverNow(t) == (~Finished(t) /\ trips'[t + 1].finished_at # NoTime)
                \/ (~Cancelled(t) /\ trips'[t + 1].cancellation_reason # NoReason)
\* The state of person p changes into Trip(t) only for a trip t of p that
\* is dispatched in this step, and out of Trip(t) only when t is over.
ThroughTrip(p) ==
  LET st == people[p + 1].state
      st2 == people'[p + 1].state
  IN /\ (InTrip(st2) /\ st2 # st) =>
          /\ st2[2] \in TripIds /\ trips[st2[2] + 1].person = p
          /\ DispatchedNow(st2[2])
     /\ (InTrip(st) /\ st2 # st) => OverNow(st[2])
\* The state of a person who is at a TripEndpoint.
StateAt(endpoint) == IF endpoint[1] = "Bldg" THEN StateInside(endpoint[2]) ELSE StateOffMap
\* Trip t is cancelled in this step because its vehicle had no room at the
\* border.
NoRoomNow(t) == ~Cancelled(t) /\ trips'[t + 1].cancellation_reason = "couldn't spawn at border"
\* A change from Inside/OffMap to Inside/OffMap.
Placed(p) ==
  /\ people'[p + 1].state # people[p + 1].state
  /\ ~InTrip(people[p + 1].state) /\ ~InTrip(people'[p + 1].state)

\* C35 as stated: people and trips are only appended and keep index =
\* id; legs change only by losing their first element; started never goes
\* back; and a person's state only moves from Inside/OffMap to Trip(t), on
\* dispatch, and from Trip(t) to Inside/OffMap, on finish or cancel (a call
\* that dispatches a trip and cancels it passes through Trip(t)).
C35_LifecycleMonotone ==
  [][panicked' = "" =>
       /\ AppendOnly
       /\ LegsShrink
       /\ \A p \in PersonIds :
            /\ ThroughTrip(p)
            /\ Placed(p) => \E t \in TripIds : trips[t + 1].person = p /\ DispatchedNow(t)
                                                /\ last'.op = "start_trip"
                                                /\ ~NoRoomNow(t)]_vars

\* C35, amended: the same, but the state also moves from Inside/OffMap to
\* Inside/OffMap: when new_trip places the person at the start of their
\* first trip, and when a trip of theirs is cancelled and they are warped
\* to its end (start_trip of a NoRoomToSpawn trip cancels without passing
\* through Trip(t)).
C35_LifecycleWithPlacement ==
  [][panicked' = "" =>
       /\ AppendOnly
       /\ LegsShrink
       /\ \A p \in PersonIds :
            /\ ThroughTrip(p)
            /\ Placed(p) =>
                 \/ /\ last'.op = "new_trip"
                    /\ people[p + 1].trips = <<>>
                    /\ trips'[last'.trip + 1].person = p
                    /\ people'[p + 1].state = StateAt(trips'[last'.trip + 1].start)
                 \/ \E t \in TripIds :
                      /\ trips[t + 1].person = p
                      /\ ~Cancelled(t) /\ trips'[t + 1].cancellation_reason # NoReason
                      /\ people'[p + 1].state = StateAt(trips[t + 1].end)]_vars
\* A NoRoomToSpawn trip was started: it is cancelled and the person, who
\* was off the map and never in Trip(t), is inside the building it led to.
C35_Witness ==
  /\ Running
  /\ last.op = "start_trip"
  /\ trips[last.trip + 1].started
  /\ trips[last.trip + 1].cancellation_reason = "couldn't spawn at border"
  /\ StateOf(last.trip)[1] = "Inside"
  /\ trips[last.trip + 1].start[1] = "Border"

(***************************************************************************)
(* Who has trips waiting.                                                  *)
(***************************************************************************)
\* C36: a person whose delayed_trips queue is not empty is in state
\* Trip(_): no finish and no cancel leaves a person Inside or OffMap with
\* trips still waiting.
C36_WaitingOnlyWhileInTrip ==
  \A p \in PersonIds : people[p + 1].delayed_trips # <<>> => InTrip(people[p + 1].state)
\* A trip of the person just finished, one that waited was started in the
\* same call and another one still waits.
C36_Witness ==
  /\ Running
  /\ Len(events) > 0 /\ events[1][1] = "TripFinished"
  /\ \E p \in PersonIds :
       /\ trips[events[1][2] + 1].person = p
       /\ people[p + 1].delayed_trips # <<>>
       /\ InTrip(people[p + 1].state)
       /\ people[p + 1].state # StateTrip(events[1][2])

(***************************************************************************)
(* A scenario that also cancels trips that wait in delayed_trips: they are *)
(* not started yet, and cancel_unstarted_trip takes any trip.              *)
(***************************************************************************)
CancelQueuedTrip ==
  /\ Running
  /\ \E p \in PersonIds : \E k \in 1..Len(people[p + 1].delayed_trips) :
       LET t == people[p + 1].delayed_trips[k].trip IN
       /\ ~Started(t) /\ ~Cancelled(t)
       /\ Apply(cancel_unstarted_trip(World, t, "cancelled by the scenario"),
                sims, Op("cancel_unstarted_trip", t))

CancelNext ==
  \/ NewPerson
  \/ NewQueuedTrip
  \/ CancelUnstartedTrip
  \/ CancelQueuedTrip
  \/ Tick
  \/ ExecStartTrip
  \/ ExecSpawnPed
  \/ ExecFinishRemoteTrip
  \/ PedReachedBuilding
  \/ PedReachedBorder

CancelSpec == Init /\ [][CancelNext]_vars

\* C37: whatever not-yet-started trips cancel_unstarted_trip is called on,
\* trips waiting in delayed_trips included, no call of start_trip made by
\* person_finished_trip finds the trip cancelled: the assertion on
\* cancellation_reason at the top of start_trip never fails.
C37_DrainNeverStartsCancelledTrip ==
  panicked # "start_trip: assert!(cancellation_reason.is_none())"

(***************************************************************************)
(* The end of the simulation.                                              *)
(***************************************************************************)
\* TripManager::is_done and TripManager::num_trips (finished, unfinished).
is_done == unfinished_trips = 0
num_trips == <<Len(trips) - unfinished_trips, unfinished_trips>>

\* C38: is_done() is true only where no person is in state Trip(_), every
\* delayed_trips queue is empty and active_trip_mode is empty; num_trips()
\* reports zero unfinished trips only where every trip is finished or
\* cancelled.
C38_DoneMeansNothingUnderWay ==
  /\ is_done =>
       /\ \A p \in PersonIds : /\ ~InTrip(people[p + 1].state)
                                /\ people[p + 1].delayed_trips = <<>>
       /\ DOMAIN active_trip_mode = {}
  /\ num_trips[2] = 0 => \A t \in TripIds : Finished(t) \/ Cancelled(t)

(***************************************************************************)
(* Where the person is when a trip starts.                                 *)
(***************************************************************************)
\* The failures of start_trip's assertions on person.state.
LocationAsserts ==
  {"start_trip: assert_eq!(person.state, OffMap)",
   "start_trip: assert_eq!(person.state, Inside(start_bldg))",
   "start_trip: assert_eq!(person.state, Inside(start))",
   "start_trip: assert_eq!(person.state, ..)"}
\* The trip whose start failed in the call that panicked: the one of the
\* StartTrip command, or the head of the queue that the handler drained.
FailedStart ==
  IF last.op = "start_trip" THEN last.trip
  ELSE LET p == trips[last.trip + 1].person
       IN people[p + 1].delayed_trips[1].trip
\* The trips of the person of t are not started in their order: an earlier
\* one is still to come, or a later one was started before t.
OutOfOrder(t) ==
  \E u \in TripIds :
    /\ trips[u + 1].person = trips[t + 1].person
    /\ \/ u < t /\ ~Finished(u) /\ ~Cancelled(u)
       \/ u > t /\ Started(u)

\* C39: the trips of a person lead from where the last one ended, and are
\* started in their order: then start_trip's assertion on the person's
\* location (Inside(start building) or OffMap) holds at every dispatch,
\* whatever finishes, cancel_trip warps, cancel_unstarted_trip calls and
\* deferred starts came before.
C39_PersonIsAtTripStart ==
  panicked \in LocationAsserts => OutOfOrder(FailedStart)

(***************************************************************************)
(* A scenario of vehicles that appear at the border and drive to a         *)
(* building, with the walk from the parking spot or the bike rack to the   *)
(* building as last leg, or with the drive as last leg: new_trip takes     *)
(* both lists, the end of the trip being the building either way.          *)
(***************************************************************************)
KerbPlans(p, start) ==
  {Plan(IF c[2] = "Bike" THEN "Bike" ELSE "Drive", start, <<Drive(c, ParkNear(b))>> \o walk,
        MkSpec("VehicleAppearing", c, POIOfEndpoint(start), ParkNear(b), FALSE, NoStop, 0),
        TRUE)
   : c \in {p.vehicles[k].id : k \in 1..Len(p.vehicles)},
     b \in Buildings,
     walk \in {<<>>, <<Walk(POIBuilding(1))>>, <<Walk(POIBuilding(2))>>}}

NewKerbTrip ==
  /\ Running
  /\ Len(trips) < MaxKerb
  /\ \E person \in 0..(Len(people) - 1), departure \in now..MaxTime :
       \E plan \in KerbPlans(PersonAt(World, person), Border(BorderI, NoLoc)) :
         ScheduleTrip(person, departure, plan)

KerbNext ==
  \/ NewPerson
  \/ NewKerbTrip
  \/ Tick
  \/ ExecStartTrip
  \/ ExecSpawnCar
  \/ ExecSpawnPed
  \/ CarReachedParkingSpot
  \/ BikeReachedEnd
  \/ PedReachedBuilding

KerbSpec == Init /\ [][KerbNext]_vars

\* The failures that are a handler reading legs[0] of an empty queue.
EmptyQueueFailures ==
  {"car_reached_parking_spot: legs[0] of an empty queue",
   "spawn_ped: legs[0] of an empty queue",
   "cancel_trip: legs[0] of an empty queue"}

\* C40: every trip that new_trip accepts is driven through its completion
\* handlers without one of them reading legs[0] of an empty queue: when
\* car_reached_parking_spot pops Drive(car, ParkNear(_)) a next leg exists,
\* also for a trip whose last leg is Drive(car, ParkNear(b)), and
\* bike_reached_end finds a next Walk leg.
C40_NoHandlerReadsEmptyQueue ==
  panicked \notin EmptyQueueFailures

====
